---- MODULE Spec2Model ----
(***************************************************************************)
(* Lighthouse-Bulk-Scan: the sequential run orchestrator of                *)
(* lighthouse_bulk_scan/cli.py with its audit invoker (runner.py) and      *)
(* report extractor (report_parser.py), and the URL-set resolution of      *)
(* cli.py with the sitemap resolver (sitemap.py).                          *)
(*                                                                         *)
(* Strings whose characters matter (URLs, file names, display values) are  *)
(* sequences of one-character strings.                                     *)
(***************************************************************************)
EXTENDS Integers, Sequences, FiniteSets, TLC

(***************************************************************************)
(* Bounds of the model.                                                    *)
(***************************************************************************)
\* longest URL list handed to the audit loop, and size of the URL pool
MaxUrls == 2
\* largest --runs-per-url
MaxRuns == 2
\* largest number of (URL, run, mode) targets of one campaign
MaxTargets == 4
\* highest run_N directory left on disk by earlier campaigns
MaxPriorRun == 1

(***************************************************************************)
(* Python values.  Every value that can be absent is a record, so that any *)
(* two of them can be compared.                                            *)
(***************************************************************************)
None == [t |-> "None"]
\* the float NaN pandas puts in a cell a record has no value for
NaN == [t |-> "NaN"]
\* a str, as its sequence of characters
Str(chars) == [t |-> "str", s |-> chars]
\* an int
PyInt(n) == [t |-> "int", n |-> n]
\* exceptions
TypeError == [t |-> "TypeError"]
ValueError == [t |-> "ValueError"]
KeyError == [t |-> "KeyError"]

(***************************************************************************)
(* Character strings.                                                      *)
(***************************************************************************)
UpperToLower ==
  [c \in
     {"A", "B", "C", "D", "E", "F", "G", "H", "I", "J", "K", "L", "M",
      "N", "O", "P", "Q", "R", "S", "T", "U", "V", "W", "X", "Y", "Z"} |->
     CASE c = "A" -> "a" [] c = "B" -> "b" [] c = "C" -> "c" [] c = "D" -> "d"
       [] c = "E" -> "e" [] c = "F" -> "f" [] c = "G" -> "g" [] c = "H" -> "h"
       [] c = "I" -> "i" [] c = "J" -> "j" [] c = "K" -> "k" [] c = "L" -> "l"
       [] c = "M" -> "m" [] c = "N" -> "n" [] c = "O" -> "o" [] c = "P" -> "p"
       [] c = "Q" -> "q" [] c = "R" -> "r" [] c = "S" -> "s" [] c = "T" -> "t"
       [] c = "U" -> "u" [] c = "V" -> "v" [] c = "W" -> "w" [] c = "X" -> "x"
       [] c = "Y" -> "y" [] c = "Z" -> "z"]

LowerChar(c) == IF c \in DOMAIN UpperToLower THEN UpperToLower[c] ELSE c

\* str.lower()
Lower(s) == [i \in 1..Len(s) |-> LowerChar(s[i])]

\* str.endswith(suffix)
EndsWith(s, suf) ==
  /\ Len(suf) <= Len(s)
  /\ SubSeq(s, Len(s) - Len(suf) + 1, Len(s)) = suf

\* str.startswith(prefix)
StartsWith(s, pre) ==
  /\ Len(pre) <= Len(s)
  /\ SubSeq(s, 1, Len(pre)) = pre

RECURSIVE ReplaceAll(_, _, _)
\* str.replace(old, new): every non-overlapping occurrence, left to right
ReplaceAll(s, old, new) ==
  IF Len(s) = 0 THEN <<>>
  ELSE IF StartsWith(s, old)
       THEN new \o ReplaceAll(SubSeq(s, Len(old) + 1, Len(s)), old, new)
       ELSE <<s[1]>> \o ReplaceAll(Tail(s), old, new)

RECURSIVE Strip(_)
\* str.strip()
Strip(s) ==
  IF Len(s) = 0 THEN s
  ELSE IF s[1] = " " THEN Strip(Tail(s))
  ELSE IF s[Len(s)] = " " THEN Strip(SubSeq(s, 1, Len(s) - 1))
  ELSE s

RECURSIVE RStrip(_, _)
\* str.rstrip(c) for one character c
RStrip(s, c) ==
  IF Len(s) > 0 /\ s[Len(s)] = c THEN RStrip(SubSeq(s, 1, Len(s) - 1), c) ELSE s

\* str.split(c, 1)[1]: what follows the first c of a string that holds one
AfterFirst(s, c) ==
  LET first == CHOOSE i \in 1..Len(s) : s[i] = c /\ \A j \in 1..(i - 1) : s[j] # c
  IN SubSeq(s, first + 1, Len(s))

HttpsScheme == <<"h", "t", "t", "p", "s", ":", "/", "/">>
HttpScheme == <<"h", "t", "t", "p", ":", "/", "/">>

ModeChars(mode) ==
  IF mode = "mobile" THEN <<"m", "o", "b", "i", "l", "e">>
  ELSE <<"d", "e", "s", "k", "t", "o", "p">>

\* the URLs the model audits: "http://a/x", "https://a/x", "http://a/y", "http://c"
UrlTable ==
  << HttpScheme \o <<"a", "/", "x">>,
     HttpsScheme \o <<"a", "/", "x">>,
     HttpScheme \o <<"a", "/", "y">>,
     HttpScheme \o <<"c">> >>

UrlPool == {UrlTable[i] : i \in 1..MaxUrls}

RECURSIVE SeqsUpTo(_, _)
\* all sequences over S of length at most n
SeqsUpTo(S, n) ==
  IF n = 0 THEN {<<>>}
  ELSE LET shorter == SeqsUpTo(S, n - 1)
       IN shorter \cup {Append(q, x) : q \in {r \in shorter : Len(r) = n - 1}, x \in S}


(***************************************************************************)
(* State of the sequential orchestrator (cli.py main).                     *)
(***************************************************************************)
VARIABLES
  urls_to_process,   \* the URL list handed to the audit loop
  disable_mobile,    \* args.disable_mobile
  start_run,         \* max_run_found + 1
  end_run,           \* max_run_found + args.runs_per_url
  existing_runs,     \* the numbers N of the run_N directories main found at line 196
  unknown_lh_flags,  \* pass-through flags, the list shared by every run_lighthouse call
  run_dirs,          \* the numbers N of the run_N directories on disk
  files,             \* JSON artifacts on disk: output path -> content
  url_idx,           \* position of the outer for loop in urls_to_process
  run_iter,          \* position of the inner for loop
  pc,                \* position of main
  desktop_json,      \* local of main
  mobile_json,       \* local of main
  results,           \* the result collection
  invocations,       \* every external-tool invocation started so far
  interrupted,       \* a KeyboardInterrupt reached the handler of the audit loop
  csv_output,        \* the rows written to the output table, None before
  logged,            \* warnings logged by main
  exception          \* the unhandled exception that ended main, None if none

orchVars ==
  << urls_to_process, disable_mobile, start_run, end_run, existing_runs, unknown_lh_flags,
     run_dirs, files, url_idx, run_iter, pc, desktop_json, mobile_json,
     results, invocations, interrupted, csv_output, logged, exception >>

(***************************************************************************)
(* State of the URL-set resolution (cli.py main, step 2) and of the        *)
(* sitemap resolver (sitemap.py).                                          *)
(***************************************************************************)
VARIABLES
  url_target,        \* args.url_target
  csv_input_file,    \* the file --csv-input-file names: NoCsv, MissingCsv or its rows
  base_url,          \* args.base_url
  max_urls,          \* args.max_urls
  robots,            \* what the site answers for /robots.txt
  site,              \* what the site answers for each sitemap URL
  g_pc,              \* position of main in step 2
  sitemaps,          \* local of main
  sm_i,              \* position of the for loop over sitemaps
  all_urls,          \* local of main
  stack,             \* the active calls of parse_sitemap, innermost last
  fetched            \* the sitemap URLs fetched so far, in order

gatherVars ==
  << url_target, csv_input_file, base_url, max_urls, robots, site, g_pc,
     sitemaps, sm_i, all_urls, stack, fetched >>

(***************************************************************************)
(* State of the executable detection (cli.py main, step 3).                *)
(***************************************************************************)
VARIABLES
  lighthouse_path,   \* args.lighthouse_path
  isfile,            \* the candidate paths os.path.isfile is true for
  lighthouse_exe     \* local of main, None before step 3

pathVars == << lighthouse_path, isfile, lighthouse_exe >>

(***************************************************************************)
(* State of the option parsing (cli.py main, lines 88-103).                *)
(***************************************************************************)
VARIABLES
  argv,              \* the options given on the command line: option -> value
  config_file,       \* the file --config-file names
  args,              \* the namespace parse_known_args returned: option -> value
  c_pc,              \* position of main before step 2
  printed            \* what main printed

configVars == << argv, config_file, args, c_pc, printed >>

\* the state main's other steps leave alone
VARIABLES
  utility_call,      \* the function under call and its argument
  returned           \* what the call returned, NotReturned before it has

callVars == << utility_call, returned >>

(***************************************************************************)
(* State of the worker-pool variant (auto_lighthouse_2.py main,            *)
(* auto_lighthouse.py module level).                                       *)
(***************************************************************************)
VARIABLES
  futures,           \* one future per submitted (url, mode): its state and result
  yield_order,       \* the futures as_completed has yielded, in that order
  pool_results,      \* the results list of the collecting thread
  summary,           \* the rows of lighthouse_summary.csv, None before
  p_pc               \* where the main thread of the variant is

poolVars == << futures, yield_order, pool_results, summary, p_pc >>

restVars == << pathVars, configVars, callVars, poolVars >>

(***************************************************************************)
(* runner.py: get_lighthouse_path                                          *)
(***************************************************************************)
FileNotFoundError == [t |-> "FileNotFoundError"]

\* --lighthouse-path was not given
NoPath == ""
\* a value of --lighthouse-path
CustomPath == "/opt/lh/lighthouse"

\* APPDATA and LOCALAPPDATA are not set, HOME is /home/u
likely_paths ==
  << "npm/lighthouse.cmd", "npm/lighthouse.cmd",
     "/home/u/.npm-global/bin/lighthouse", "lighthouse" >>

\* get_lighthouse_path(custom_path) on a disk where the paths of disk are files
get_lighthouse_path(custom_path, disk) ==
  IF custom_path # "" /\ custom_path \in disk THEN Str(custom_path)
  ELSE LET found == SelectSeq(likely_paths, LAMBDA path : path # "" /\ path \in disk)
       IN IF found # << >> THEN Str(found[1]) ELSE FileNotFoundError

(***************************************************************************)
(* runner.py: run_lighthouse                                               *)
(***************************************************************************)
UserChromeFlags == "--chrome-flags=\"--headless=new\""
UserWindowSize == "--chrome-flags=\"--window-size=800,600\""
DefaultChromeFlags ==
  "--chrome-flags=\"--headless --disable-gpu --disable-dev-shm-usage --no-sandbox --user-data-dir=/tmp/lighthouse_profile\""

\* "--chrome-flags" in f
MentionsChromeFlags(f) == f \in {UserChromeFlags, UserWindowSize, DefaultChromeFlags}

\* a faulty default-flags block that does not look at extra_flags
WithDefaultFlagsAlways(extra_flags) == Append(extra_flags, DefaultChromeFlags)

\* extra_flags after the default-flags block: the list is mutated in place
WithDefaultFlags(extra_flags) ==
  IF \E i \in 1..Len(extra_flags) : MentionsChromeFlags(extra_flags[i])
  THEN extra_flags
  ELSE Append(extra_flags, DefaultChromeFlags)

\* the sanitized output file name
safe_url(url) ==
  ReplaceAll(
    ReplaceAll(
      ReplaceAll(
        ReplaceAll(
          ReplaceAll(
            ReplaceAll(url, HttpsScheme, <<>>),
            HttpScheme, <<>>),
          <<"/">>, <<"_">>),
        <<"?">>, <<"_">>),
      <<"&">>, <<"_">>),
    <<":">>, <<"_">>)

out_file(url, mode, output_dir) ==
  [dir |-> output_dir,
   name |-> safe_url(url) \o <<"_">> \o ModeChars(mode) \o <<".", "j", "s", "o", "n">>]

ModeFlags(mode) ==
  IF mode = "mobile"
  THEN << "--emulated-form-factor=mobile", "--screenEmulation.width=375",
          "--screenEmulation.height=667", "--screenEmulation.deviceScaleFactor=2",
          "--screenEmulation.mobile" >>
  ELSE << "--preset=desktop" >>

\* a faulty command that extends cmd with extra_flags twice
cmd_extended_twice(mode, extra_flags) == ModeFlags(mode) \o extra_flags \o extra_flags

\* the command line after the executable, the URL and the fixed output options
cmd(mode, extra_flags) == ModeFlags(mode) \o extra_flags

\* how one invocation of the external tool can end
ToolOutcomes == {"ok", "timeout", "nonzero", "interrupt"}

\* a faulty run_lighthouse: the timeout handler falls through to the return
\* of out_file
run_lighthouse_result_after_timeout(url, mode, output_dir, outcome) ==
  IF outcome \in {"ok", "timeout"} THEN out_file(url, mode, output_dir) ELSE None

\* the value run_lighthouse returns
run_lighthouse_result(url, mode, output_dir, outcome) ==
  IF outcome = "ok" THEN out_file(url, mode, output_dir) ELSE None

(***************************************************************************)
(* Numbers: a decimal is [digits |-> n, scale |-> k], the value n / 10^k,  *)
(* with no trailing zero after the point.                                  *)
(***************************************************************************)
RECURSIVE Normalize(_)
Normalize(d) ==
  IF d.scale > 0 /\ d.digits % 10 = 0
  THEN Normalize([digits |-> d.digits \div 10, scale |-> d.scale - 1])
  ELSE d

Dec(n, k) == Normalize([digits |-> n, scale |-> k])

(***************************************************************************)
(* The JSON artifact the external tool leaves behind, and                  *)
(* report_parser.py: extract_detailed_data                                 *)
(***************************************************************************)
Malformed == [kind |-> "malformed"]

\* "1.2 s" and "240 ms"
Display12s == <<"1", ".", "2", " ", "s">>
Display240ms == <<"2", "4", "0", " ", "m", "s">>

\* a well-formed report of the tool for one target
ReportOf(url, mode) ==
  [kind |-> "report",
   requestedUrl |-> url,
   score |-> IF mode = "desktop" THEN Dec(9, 1) ELSE Dec(5, 1),
   fcp |-> IF mode = "desktop" THEN Str(Display12s) ELSE Str(Display240ms)]

\* what the tool can have written when it exits with status 0
ToolArtifacts(url, mode) == {Malformed, ReportOf(url, mode)}

\* the record extract_detailed_data returns for the file at report_path
extract_detailed_data(disk, report_path, mode) ==
  IF report_path \in DOMAIN disk /\ disk[report_path].kind = "report"
  THEN [mode |-> Str(ModeChars(mode)),
        requested_url |-> Str(disk[report_path].requestedUrl),
        performance_score |-> disk[report_path].score,
        first_contentful_paint |-> disk[report_path].fcp]
  ELSE << >>

\* d[key] = value on a Python dict
SetItem(d, key, value) ==
  [k \in DOMAIN d \cup {key} |-> IF k = key THEN value ELSE d[k]]


(***************************************************************************)
(* cli.py: parse_display_value                                             *)
(***************************************************************************)
DigitValue ==
  [c \in {"0", "1", "2", "3", "4", "5", "6", "7", "8", "9"} |->
     CASE c = "0" -> 0 [] c = "1" -> 1 [] c = "2" -> 2 [] c = "3" -> 3
       [] c = "4" -> 4 [] c = "5" -> 5 [] c = "6" -> 6 [] c = "7" -> 7
       [] c = "8" -> 8 [] c = "9" -> 9]

IsDigit(c) == c \in DOMAIN DigitValue

\* a faulty re.sub that keeps the digits only
StripNonDigits(val) == SelectSeq(val, IsDigit)

\* re.sub(r'[^0-9.]', '', val)
StripNonNumeric(val) == SelectSeq(val, LAMBDA c : IsDigit(c) \/ c = ".")

RECURSIVE DigitsToInt(_)
DigitsToInt(ds) ==
  IF Len(ds) = 0 THEN 0
  ELSE 10 * DigitsToInt(SubSeq(ds, 1, Len(ds) - 1)) + DigitValue[ds[Len(ds)]]

\* float(val_str) for a string of digits and points: ValueError unless it
\* has at least one digit and at most one point
float(val_str) ==
  LET digits == SelectSeq(val_str, IsDigit)
      points == SelectSeq(val_str, LAMBDA c : c = ".")
      first  == CHOOSE i \in 1..Len(val_str) : val_str[i] = "."
  IN IF Len(digits) = 0 \/ Len(points) > 1 THEN ValueError
     ELSE IF Len(points) = 0 THEN Dec(DigitsToInt(digits), 0)
     ELSE Dec(DigitsToInt(digits), Len(val_str) - first)

\* parse_display_value(val); val is None, a string, or the NaN of a missing
\* table cell, for which re.sub raises TypeError
parse_display_value(val) ==
  IF val = None \/ val = Str(<< >>) THEN None
  ELSE IF val = NaN THEN TypeError
  ELSE LET val_str == StripNonNumeric(val.s)
       IN IF val_str = << >> THEN None
          ELSE IF float(val_str) = ValueError THEN None
          ELSE float(val_str)

(***************************************************************************)
(* cli.py main, step 5: the aggregated table                               *)
(***************************************************************************)
\* the numeric columns of the model's records (cli.py lists eleven)
numeric_cols == {"performance_score", "first_contentful_paint"}
\* the columns that hold display strings
display_cols == {"first_contentful_paint"}

Columns(rs) == UNION {DOMAIN rs[i] : i \in 1..Len(rs)}

\* pd.DataFrame(results): a cell a record lacks is NaN
DataFrame(rs) ==
  [i \in 1..Len(rs) |->
     [c \in Columns(rs) |-> IF c \in DOMAIN rs[i] THEN rs[i][c] ELSE NaN]]

\* pd.to_numeric(..., errors='coerce') of one cell
to_numeric(v) == IF v = None \/ v = NaN THEN NaN ELSE v

\* the cell after the numeric conversion loop
ConvertCell(c, v) ==
  IF c \in display_cols THEN to_numeric(parse_display_value(v))
  ELSE IF c \in numeric_cols THEN to_numeric(v)
  ELSE v

\* the conversion loop raises when parse_display_value meets a missing cell
ConversionRaises(df) ==
  \E i \in 1..Len(df) : \E c \in DOMAIN df[i] \cap display_cols :
     parse_display_value(df[i][c]) = TypeError

ConvertFrame(df) ==
  [i \in 1..Len(df) |-> [c \in DOMAIN df[i] |-> ConvertCell(c, df[i][c])]]

RECURSIVE GCD(_, _)
GCD(a, b) == IF b = 0 THEN a ELSE GCD(b, a % b)

RECURSIVE Pow10(_)
Pow10(k) == IF k = 0 THEN 1 ELSE 10 * Pow10(k - 1)

\* a mean is a fraction in lowest terms
Fraction(n, d) ==
  LET g == GCD(n, d) IN IF n = 0 THEN [num |-> 0, den |-> 1]
                        ELSE [num |-> n \div g, den |-> d \div g]

RECURSIVE SumScaled(_, _)
\* the sum of the decimals of vals in units of 10^-k
SumScaled(vals, k) ==
  IF Len(vals) = 0 THEN 0
  ELSE vals[1].digits * Pow10(k - vals[1].scale) + SumScaled(Tail(vals), k)

\* Series.mean of the cells of column c in the rows of df: NaN cells are skipped
ColumnMean(df, c) ==
  LET cells == [i \in 1..Len(df) |-> df[i][c]]
      vals  == SelectSeq(cells, LAMBDA v : v # NaN)
      k     == CHOOSE m \in {vals[i].scale : i \in 1..Len(vals)} :
                 \A i \in 1..Len(vals) : vals[i].scale <= m
  IN IF Len(vals) = 0 THEN NaN
     ELSE Fraction(SumScaled(vals, k), Len(vals) * Pow10(k))

\* a faulty subset: the rows of every mode
ModeRowsUnfiltered(df, mode) == df

\* df[df['mode'] == mode]
ModeRows(df, mode) == SelectSeq(df, LAMBDA row : row["mode"] = Str(ModeChars(mode)))

AverageLabel == <<"-", "A", "V", "E", "R", "A", "G", "E">>
\* '---'
Unavailable == Str(<<"-", "-", "-">>)

\* the average row of one mode: '---' in every column the mean does not cover
AverageRow(df, mode, label) ==
  LET sub == ModeRows(df, mode)
  IN [c \in DOMAIN df[1] |->
        IF c = "mode" THEN Str(ModeChars(mode) \o label)
        ELSE IF c \in numeric_cols /\ Len(sub) > 0 THEN ColumnMean(sub, c)
        ELSE Unavailable]

\* a faulty step 5: an average row for the modes that have rows only
AggregateAveragingAuditedModes(rs) ==
  LET df == DataFrame(rs)
  IN IF ConversionRaises(df) THEN [exception |-> TypeError, table |-> None]
     ELSE IF "mode" \notin Columns(rs) THEN [exception |-> KeyError, table |-> None]
     ELSE LET num == ConvertFrame(df)
              avg(mode) == IF Len(ModeRows(num, mode)) > 0
                           THEN <<AverageRow(num, mode, AverageLabel)>> ELSE << >>
          IN [exception |-> None,
              table |-> [rows |-> avg("desktop") \o avg("mobile") \o num]]

\* how step 5 ends for a non-empty result collection: the exception it
\* raises, or the rows of final_df
Aggregate(rs) ==
  LET df == DataFrame(rs)
  IN IF ConversionRaises(df) THEN [exception |-> TypeError, table |-> None]
     ELSE IF "mode" \notin Columns(rs) THEN [exception |-> KeyError, table |-> None]
     ELSE LET num == ConvertFrame(df)
          IN [exception |-> None,
              table |-> [rows |-> << AverageRow(num, "desktop", AverageLabel),
                                     AverageRow(num, "mobile", AverageLabel) >> \o num]]


(***************************************************************************)
(* cli.py main, step 4: the run index                                      *)
(***************************************************************************)
\* a faulty step 4: the output directory is not scanned
max_run_found_without_scan(dirs) == 0

\* the highest N of the run_N directories, 0 when there is none
max_run_found(dirs) ==
  IF dirs = {} THEN 0 ELSE CHOOSE n \in dirs : \A m \in dirs : m <= n

Modes(no_mobile) == IF no_mobile THEN <<"desktop">> ELSE <<"desktop", "mobile">>

(***************************************************************************)
(* cli.py main, the audit loop                                             *)
(***************************************************************************)
NoException == None

LoopPcs == {"desktop_run", "desktop_extract", "mobile_run", "mobile_extract"}

\* the state in which main enters the try block of the audit loop
InitOrchestrator ==
  /\ urls_to_process \in SeqsUpTo(UrlPool, MaxUrls)
  /\ disable_mobile \in BOOLEAN
  /\ run_dirs \in SUBSET (1..MaxPriorRun)
  /\ existing_runs = run_dirs
  /\ start_run = max_run_found(existing_runs) + 1
  /\ \E runs_per_url \in 0..MaxRuns :
       /\ Len(urls_to_process) * runs_per_url * Len(Modes(disable_mobile)) <= MaxTargets
       /\ end_run = max_run_found(existing_runs) + runs_per_url
  /\ unknown_lh_flags \in {<< >>, <<"--verbose">>, <<UserChromeFlags>>,
                          <<UserChromeFlags, UserWindowSize>>}
  /\ files = << >>
  /\ url_idx = 1
  /\ run_iter = start_run
  /\ pc = IF Len(urls_to_process) > 0 /\ start_run <= end_run
          THEN "desktop_run" ELSE "aggregate"
  /\ desktop_json = None
  /\ mobile_json = None
  /\ results = << >>
  /\ invocations = << >>
  /\ interrupted = FALSE
  /\ csv_output = None
  /\ logged = {}
  /\ exception = NoException

\* faulty loops: the runs are the outer loop and the URLs the inner one
NextIterationRunsOutermost ==
  IF url_idx < Len(urls_to_process)
  THEN /\ url_idx' = url_idx + 1
       /\ run_iter' = run_iter
       /\ pc' = "desktop_run"
  ELSE IF run_iter < end_run
  THEN /\ url_idx' = 1
       /\ run_iter' = run_iter + 1
       /\ pc' = "desktop_run"
  ELSE /\ run_iter' = run_iter
       /\ url_idx' = url_idx
       /\ pc' = "aggregate"

\* the loops move on to the next (url, run_iter) pair, or end
NextIteration ==
  IF run_iter < end_run
  THEN /\ run_iter' = run_iter + 1
       /\ url_idx' = url_idx
       /\ pc' = "desktop_run"
  ELSE IF url_idx < Len(urls_to_process)
  THEN /\ run_iter' = start_run
       /\ url_idx' = url_idx + 1
       /\ pc' = "desktop_run"
  ELSE /\ run_iter' = run_iter
       /\ url_idx' = url_idx
       /\ pc' = "aggregate"

\* a faulty loop body: a desktop failure skips the mobile audit of the same
\* URL and run
AfterDesktopSkippingMobile ==
  IF disable_mobile \/ desktop_json' = None THEN NextIteration
  ELSE /\ pc' = "mobile_run"
       /\ UNCHANGED <<url_idx, run_iter>>

\* after the desktop half of the loop body
AfterDesktop ==
  IF disable_mobile THEN NextIteration
  ELSE /\ pc' = "mobile_run"
       /\ UNCHANGED <<url_idx, run_iter>>

\* except KeyboardInterrupt
HandleInterrupt ==
  /\ pc' = "aggregate"
  /\ interrupted' = TRUE
  /\ logged' = logged \cup {"KeyboardInterrupt: Stopping early. Partial results will still be saved."}
  /\ UNCHANGED <<url_idx, run_iter>>

\* one call of run_lighthouse for the current (url, run_iter) in the given
\* mode; tool is how the external tool ends and what it wrote if it exits 0
CallRunLighthouse(mode, tool, artifact) ==
  LET url   == urls_to_process[url_idx]
      flags == WithDefaultFlags(unknown_lh_flags)
      path  == out_file(url, mode, run_iter)
  IN /\ run_dirs' = run_dirs \cup {run_iter}
     /\ unknown_lh_flags' = flags
     /\ invocations' = Append(invocations,
                              [idx |-> url_idx, url |-> url, mode |-> mode,
                               run |-> run_iter, cmd |-> cmd(mode, flags),
                               outcome |-> tool,
                               artifact |-> IF tool = "ok" THEN artifact ELSE None])
     /\ files' = IF tool = "ok" THEN SetItem(files, path, artifact) ELSE files

\* lines 219-231: makedirs, run_lighthouse(mode="desktop"), if desktop_json
DesktopRun ==
  /\ pc = "desktop_run"
  /\ \E tool \in ToolOutcomes :
     \E artifact \in ToolArtifacts(urls_to_process[url_idx], "desktop") :
       /\ CallRunLighthouse("desktop", tool, artifact)
       /\ IF tool = "interrupt"
          THEN HandleInterrupt /\ UNCHANGED desktop_json
          ELSE /\ desktop_json' =
                    run_lighthouse_result(urls_to_process[url_idx], "desktop", run_iter, tool)
               /\ IF desktop_json' # None
                  THEN pc' = "desktop_extract" /\ UNCHANGED <<url_idx, run_iter>>
                  ELSE AfterDesktop
               /\ UNCHANGED <<interrupted, logged>>
  /\ UNCHANGED <<urls_to_process, disable_mobile, start_run, end_run, existing_runs, mobile_json,
                 results, csv_output, exception>>
  /\ UNCHANGED gatherVars
  /\ UNCHANGED restVars

\* lines 232-234: extract_detailed_data(desktop_json, "desktop"), append
DesktopExtract ==
  /\ pc = "desktop_extract"
  /\ LET desk_data == extract_detailed_data(files, desktop_json, "desktop")
     IN results' = Append(results, SetItem(desk_data, "run_iteration", PyInt(run_iter)))
  /\ AfterDesktop
  /\ UNCHANGED <<urls_to_process, disable_mobile, start_run, end_run, existing_runs, unknown_lh_flags,
                 run_dirs, files, desktop_json, mobile_json, invocations, interrupted,
                 csv_output, logged, exception>>
  /\ UNCHANGED gatherVars
  /\ UNCHANGED restVars

\* lines 238-248: run_lighthouse(mode="mobile"), if mobile_json
MobileRun ==
  /\ pc = "mobile_run"
  /\ \E tool \in ToolOutcomes :
     \E artifact \in ToolArtifacts(urls_to_process[url_idx], "mobile") :
       /\ CallRunLighthouse("mobile", tool, artifact)
       /\ IF tool = "interrupt"
          THEN HandleInterrupt /\ UNCHANGED mobile_json
          ELSE /\ mobile_json' =
                    run_lighthouse_result(urls_to_process[url_idx], "mobile", run_iter, tool)
               /\ IF mobile_json' # None
                  THEN pc' = "mobile_extract" /\ UNCHANGED <<url_idx, run_iter>>
                  ELSE NextIteration
               /\ UNCHANGED <<interrupted, logged>>
  /\ UNCHANGED <<urls_to_process, disable_mobile, start_run, end_run, existing_runs, desktop_json,
                 results, csv_output, exception>>
  /\ UNCHANGED gatherVars
  /\ UNCHANGED restVars

\* lines 249-251: extract_detailed_data(mobile_json, "mobile"), append
MobileExtract ==
  /\ pc = "mobile_extract"
  /\ LET mob_data == extract_detailed_data(files, mobile_json, "mobile")
     IN results' = Append(results, SetItem(mob_data, "run_iteration", PyInt(run_iter)))
  /\ NextIteration
  /\ UNCHANGED <<urls_to_process, disable_mobile, start_run, end_run, existing_runs, unknown_lh_flags,
                 run_dirs, files, desktop_json, mobile_json, invocations, interrupted,
                 csv_output, logged, exception>>
  /\ UNCHANGED gatherVars
  /\ UNCHANGED restVars

\* lines 255-256: a KeyboardInterrupt between two calls of the loop body
KeyboardInterrupt ==
  /\ pc \in LoopPcs
  /\ HandleInterrupt
  /\ UNCHANGED <<urls_to_process, disable_mobile, start_run, end_run, existing_runs, unknown_lh_flags,
                 run_dirs, files, desktop_json, mobile_json, results, invocations,
                 csv_output, exception>>
  /\ UNCHANGED gatherVars
  /\ UNCHANGED restVars

\* lines 259-329: build the table and write it, or warn that there is none
SaveAggregated ==
  /\ pc = "aggregate"
  /\ IF results = << >>
     THEN /\ logged' = logged \cup {"No successful Lighthouse runs, no CSV written."}
          /\ pc' = "done"
          /\ UNCHANGED <<csv_output, exception>>
     ELSE IF Aggregate(results).exception # None
     THEN /\ exception' = Aggregate(results).exception
          /\ pc' = "crashed"
          /\ UNCHANGED <<csv_output, logged>>
     ELSE /\ csv_output' = Aggregate(results).table
          /\ pc' = "done"
          /\ UNCHANGED <<exception, logged>>
  /\ UNCHANGED <<urls_to_process, disable_mobile, start_run, end_run, existing_runs, unknown_lh_flags,
                 run_dirs, files, url_idx, run_iter, desktop_json, mobile_json,
                 results, invocations, interrupted>>
  /\ UNCHANGED gatherVars
  /\ UNCHANGED restVars

\* highest run index of the campaigns that follow one another
MaxRunIndex == 2

\* main is invoked again on the same output directory, with one URL at most:
\* lines 196-213 on the directories and files the earlier invocations left
StartNextInvocation ==
  /\ pc \in {"done", "crashed"}
  /\ existing_runs' = run_dirs
  /\ start_run' = max_run_found(existing_runs') + 1
  /\ urls_to_process' \in SeqsUpTo({UrlTable[1]}, 1)
  /\ disable_mobile' \in BOOLEAN
  /\ \E runs_per_url \in 0..MaxRuns :
       /\ end_run' = max_run_found(existing_runs') + runs_per_url
       /\ end_run' <= MaxRunIndex
  /\ unknown_lh_flags' = << >>
  /\ url_idx' = 1
  /\ run_iter' = start_run'
  /\ pc' = IF Len(urls_to_process') > 0 /\ start_run' <= end_run'
           THEN "desktop_run" ELSE "aggregate"
  /\ desktop_json' = None
  /\ mobile_json' = None
  /\ results' = << >>
  /\ invocations' = << >>
  /\ interrupted' = FALSE
  /\ csv_output' = None
  /\ logged' = {}
  /\ exception' = NoException
  /\ UNCHANGED <<run_dirs, files>>
  /\ UNCHANGED gatherVars
  /\ UNCHANGED restVars

(***************************************************************************)
(* sitemap.py: is_html_page                                                *)
(***************************************************************************)
NON_HTML_EXTENSIONS ==
  { <<".", "j", "p", "g">>,
    <<".", "j", "p", "e", "g">>,
    <<".", "p", "n", "g">>,
    <<".", "g", "i", "f">>,
    <<".", "b", "m", "p">>,
    <<".", "s", "v", "g">>,
    <<".", "w", "e", "b", "p">>,
    <<".", "p", "d", "f">>,
    <<".", "d", "o", "c">>,
    <<".", "d", "o", "c", "x">>,
    <<".", "x", "l", "s">>,
    <<".", "x", "l", "s", "x">>,
    <<".", "p", "p", "t">>,
    <<".", "p", "p", "t", "x">>,
    <<".", "z", "i", "p">>,
    <<".", "r", "a", "r">>,
    <<".", "e", "x", "e">>,
    <<".", "d", "m", "g">>,
    <<".", "m", "p", "3">>,
    <<".", "m", "p", "4">>,
    <<".", "a", "v", "i">>,
    <<".", "m", "o", "v">>,
    <<".", "f", "l", "v">>,
    <<".", "w", "m", "v">>,
    <<".", "m", "k", "v">>,
    <<".", "o", "g", "g">>,
    <<".", "o", "g", "v">>,
    <<".", "w", "e", "b", "m">>,
    <<".", "m", "p", "g">>,
    <<".", "m", "p", "e", "g">> }

is_html_page(url) ==
  ~ \E ext \in NON_HTML_EXTENSIONS : EndsWith(Lower(url), ext)

(***************************************************************************)
(* The site: what a GET of robots.txt and of each sitemap URL answers.     *)
(***************************************************************************)
\* "http://a/"
PageRoot == <<"h", "t", "t", "p", ":", "/", "/", "a", "/">>
\* "http://a/index.html"
PageIndexHtml == <<"h", "t", "t", "p", ":", "/", "/", "a", "/", "i", "n", "d", "e", "x", ".", "h", "t", "m", "l">>
\* "http://a/logo.png"
PageLogoPng == <<"h", "t", "t", "p", ":", "/", "/", "a", "/", "l", "o", "g", "o", ".", "p", "n", "g">>
\* "http://a/about"
PageAbout == <<"h", "t", "t", "p", ":", "/", "/", "a", "/", "a", "b", "o", "u", "t">>
\* "http://a/news/"
PageNews == <<"h", "t", "t", "p", ":", "/", "/", "a", "/", "n", "e", "w", "s", "/">>
\* "http://a/doc.PDF"
PageDocPDF == <<"h", "t", "t", "p", ":", "/", "/", "a", "/", "d", "o", "c", ".", "P", "D", "F">>

\* the sitemap URLs of the site
\* "http://a/sitemap.xml"
SitemapXml == <<"h", "t", "t", "p", ":", "/", "/", "a", "/", "s", "i", "t", "e", "m", "a", "p", ".", "x", "m", "l">>
\* "http://a/sitemap_index.xml"
SitemapIndexXml == <<"h", "t", "t", "p", ":", "/", "/", "a", "/", "s", "i", "t", "e", "m", "a", "p", "_", "i", "n", "d", "e", "x", ".", "x", "m", "l">>
\* "http://a/s1.xml"
ChildOneXml == <<"h", "t", "t", "p", ":", "/", "/", "a", "/", "s", "1", ".", "x", "m", "l">>
\* "http://a/s2.xml"
ChildTwoXml == <<"h", "t", "t", "p", ":", "/", "/", "a", "/", "s", "2", ".", "x", "m", "l">>
SitemapUrls == {SitemapXml, SitemapIndexXml, ChildOneXml, ChildTwoXml}

\* the GET fails: network error or a status raise_for_status rejects
FetchFailure == [kind |-> "fetch_failure"]
\* a body with "<sitemapindex" in it that is not well-formed XML
MalformedIndex == [kind |-> "sitemapindex", wellformed |-> FALSE, entries |-> << >>]
\* a <sitemap> entry of an index; loc_children says whether its <loc> element
\* has child elements (a <loc> of a standard sitemap has text only)
IndexEntry(child, children) == [loc |-> child, loc_children |-> children]
\* a well-formed sitemap index with one <sitemap><loc> entry per child
SitemapIndex(children, loc_children) ==
  [kind |-> "sitemapindex", wellformed |-> TRUE,
   entries |-> [i \in 1..Len(children) |-> IndexEntry(children[i], loc_children)]]
\* a leaf sitemap with one <url><loc> entry per page
UrlSet(locs) == [kind |-> "urlset", locs |-> locs]

LeafOne == UrlSet(<<PageRoot, PageIndexHtml, PageLogoPng>>)
LeafTwo == UrlSet(<<PageAbout, PageNews, PageDocPDF>>)
LeafOverlap == UrlSet(<<PageRoot, PageAbout>>)

\* the documents the model serves at each sitemap URL
SiteDocs(u) ==
  CASE u = SitemapXml ->
         {FetchFailure, LeafOne, SitemapIndex(<<ChildOneXml, ChildTwoXml>>, FALSE)}
    [] u = SitemapIndexXml ->
         {FetchFailure, MalformedIndex} \cup
         {SitemapIndex(<<ChildOneXml, ChildTwoXml>>, k) : k \in BOOLEAN}
    [] u = ChildOneXml ->
         {FetchFailure, MalformedIndex, LeafOne, SitemapIndex(<<ChildTwoXml>>, TRUE)}
    [] u = ChildTwoXml ->
         {FetchFailure, LeafTwo, LeafOverlap}

Sites == {s \in [SitemapUrls -> UNION {SiteDocs(u) : u \in SitemapUrls}] :
            \A u \in SitemapUrls : s[u] \in SiteDocs(u)}

\* lines of robots.txt files
\* "User-agent: *"
LineUserAgent == <<"U", "s", "e", "r", "-", "a", "g", "e", "n", "t", ":", " ", "*">>
\* "Sitemap: http://a/sitemap_index.xml"
LineSitemapIndex == <<"S", "i", "t", "e", "m", "a", "p", ":", " ", "h", "t", "t", "p", ":", "/", "/", "a", "/", "s", "i", "t", "e", "m", "a", "p", "_", "i", "n", "d", "e", "x", ".", "x", "m", "l">>
\* "SITEMAP: http://a/s1.xml"
LineUpperCase == <<"S", "I", "T", "E", "M", "A", "P", ":", " ", "h", "t", "t", "p", ":", "/", "/", "a", "/", "s", "1", ".", "x", "m", "l">>
\* "sitemap: /s2.xml"
LineRelative == <<"s", "i", "t", "e", "m", "a", "p", ":", " ", "/", "s", "2", ".", "x", "m", "l">>
\* "Sitemap:s2.xml"
LineRelativeNoSlash == <<"S", "i", "t", "e", "m", "a", "p", ":", "s", "2", ".", "x", "m", "l">>

\* the answers for robots.txt: the status of the GET and the lines of the body
RobotsAnswers ==
  { [status |-> "fail", lines |-> << >>],
    [status |-> "fail", lines |-> <<LineSitemapIndex>>],
    [status |-> "ok", lines |-> << >>],
    [status |-> "ok", lines |-> <<LineUserAgent>>],
    [status |-> "ok", lines |-> <<LineUserAgent, LineSitemapIndex>>],
    [status |-> "ok", lines |-> <<LineUpperCase, LineUserAgent, LineRelative>>],
    [status |-> "ok", lines |-> <<LineRelativeNoSlash>>],
    [status |-> "ok", lines |-> <<LineRelative, LineRelativeNoSlash>>] }

(***************************************************************************)
(* sitemap.py: fetch_sitemaps_from_robots and parse_sitemap                *)
(***************************************************************************)
\* urljoin(base, url) for a base "http://host" or "http://host/" and a url
\* without a scheme: an absolute path replaces the path of the base, a
\* relative one is resolved against its root, an empty one gives the base
urljoin(base, url) ==
  IF url = << >> THEN base
  ELSE IF url[1] = "/" THEN RStrip(base, "/") \o url
  ELSE RStrip(base, "/") \o <<"/">> \o url

\* the prefix line.lower() is tested for
SitemapDirective == <<"s", "i", "t", "e", "m", "a", "p", ":">>

\* lines 36-39: the value of one Sitemap: line
SitemapValue(base, line) ==
  LET sitemap_url == Strip(AfterFirst(line, ":"))
  IN IF StartsWith(sitemap_url, <<"h", "t", "t", "p">>) THEN sitemap_url
     ELSE urljoin(base, sitemap_url)

\* a faulty fetch_sitemaps_from_robots: the directive is matched as written
fetch_sitemaps_case_sensitive(base, answer) ==
  IF answer.status = "ok"
  THEN LET kept == SelectSeq(answer.lines,
                             LAMBDA line : StartsWith(line, <<"S", "i", "t", "e", "m", "a", "p", ":">>))
       IN [i \in 1..Len(kept) |-> SitemapValue(base, kept[i])]
  ELSE << >>

\* fetch_sitemaps_from_robots(base): raise_for_status and every network
\* error raise a RequestException, which gives []
fetch_sitemaps_from_robots(base, answer) ==
  IF answer.status = "ok"
  THEN LET kept == SelectSeq(answer.lines,
                             LAMBDA line : StartsWith(Lower(line), SitemapDirective))
       IN [i \in 1..Len(kept) |-> SitemapValue(base, kept[i])]
  ELSE << >>

\* lines 155-158: the two conventional sitemap paths of the domain
FallbackSitemaps(base_domain) ==
  << HttpScheme \o RStrip(base_domain, "/") \o <<"/", "s", "i", "t", "e", "m", "a", "p", ".", "x", "m", "l">>,
     HttpScheme \o RStrip(base_domain, "/") \o <<"/", "s", "i", "t", "e", "m", "a", "p", "_", "i", "n", "d", "e", "x", ".", "x", "m", "l">> >>

\* a call of parse_sitemap(url) that has not fetched yet
NewCall(url) == [url |-> url, stage |-> "fetch", todo |-> << >>, urls |-> << >>]

\* "if loc and loc.text" on an xml.etree Element: the truth value of an
\* Element is len(element) != 0, so a <loc> that holds text only is false
LocIsTrue(entry) == entry.loc_children

\* the children an index recurses into
ChildrenToParse(doc) ==
  LET kept == SelectSeq(doc.entries, LocIsTrue)
  IN [i \in 1..Len(kept) |-> kept[i].loc]

\* the state of the call after the GET and the parse of the document
AfterFetch(call, doc) ==
  IF doc.kind = "fetch_failure" THEN [call EXCEPT !.stage = "return"]
  ELSE IF doc.kind = "sitemapindex"
  THEN IF ~doc.wellformed THEN [call EXCEPT !.stage = "return"]
       ELSE IF ChildrenToParse(doc) = << >> THEN [call EXCEPT !.stage = "return"]
       ELSE [call EXCEPT !.stage = "children", !.todo = ChildrenToParse(doc)]
  ELSE [call EXCEPT !.stage = "return",
                    !.urls = SelectSeq(doc.locs, is_html_page)]

\* deepest stack of parse_sitemap calls: the interpreter raises
\* RecursionError on the call that would exceed it (sys.getrecursionlimit()
\* is 1000 frames)
RecursionLimit == 3

\* a faulty handler that runs the loop over the children again
AfterRecursionErrorRetrying(call) == call

\* sitemap.py lines 72-75: the RecursionError of the call at line 63 is an
\* Exception of the calling frame, which logs it and returns its urls
AfterRecursionError(call) == [call EXCEPT !.stage = "return", !.todo = << >>]

SeqToSet(q) == {q[i] : i \in 1..Len(q)}

(***************************************************************************)
(* cli.py main, step 2: gather the URLs                                    *)
(***************************************************************************)
NoCsv == [file |-> "not given", rows |-> << >>]
MissingCsv == [file |-> "not found", rows |-> << >>]
CsvFile(rows) == [file |-> "found", rows |-> rows]

\* longest CSV file of the model
MaxCsvRows == 2

\* a faulty slice: the limit is ignored
PrefixIgnoringLimit(q, n) == q

\* seq[:n]
Prefix(q, n) ==
  IF n >= 0 THEN SubSeq(q, 1, IF n < Len(q) THEN n ELSE Len(q))
  ELSE SubSeq(q, 1, Len(q) + n)

\* the first cells of the rows of the CSV files of the model; an empty cell
\* stands for an empty row as well
CsvCells == {UrlTable[1], UrlTable[2], <<" ">> \o UrlTable[1] \o <<" ">>, << >>}

\* the values of --max-urls of the model; 99999 is the parser default
MaxUrlsArgs == {-1, 0, 1, 2, 99999}

\* lines 140-142: the stripped first cell of every row that has one
CsvUrls(rows) ==
  LET kept == SelectSeq(rows, LAMBDA cell : Strip(cell) # << >>)
  IN [i \in 1..Len(kept) |-> Strip(kept[i])]

RECURSIVE Orderings(_)
\* list(s) of a set s: the order is the set's
Orderings(S) ==
  IF S = {} THEN {<< >>}
  ELSE UNION {{<<x>> \o q : q \in Orderings(S \ {x})} : x \in S}

\* the values of the gather state while main is not in step 2
GatherIdle ==
  /\ url_target = << >>
  /\ csv_input_file = NoCsv
  /\ base_url = << >>
  /\ max_urls = 99999
  /\ robots = [status |-> "fail", lines |-> << >>]
  /\ site = [u \in SitemapUrls |-> FetchFailure]
  /\ g_pc = "ready"
  /\ sitemaps = << >>
  /\ sm_i = 1
  /\ all_urls = {}
  /\ stack = << >>
  /\ fetched = << >>

\* the values of the orchestrator state before the audit loop
OrchestratorIdle ==
  /\ urls_to_process = << >>
  /\ disable_mobile = FALSE
  /\ start_run = 1
  /\ end_run = 1
  /\ existing_runs = {}
  /\ unknown_lh_flags = << >>
  /\ run_dirs = {}
  /\ files = << >>
  /\ url_idx = 1
  /\ run_iter = 1
  /\ pc = "gather"
  /\ desktop_json = None
  /\ mobile_json = None
  /\ results = << >>
  /\ invocations = << >>
  /\ interrupted = FALSE
  /\ csv_output = None
  /\ logged = {}
  /\ exception = NoException

orchRest ==
  << disable_mobile, start_run, end_run, existing_runs, unknown_lh_flags, run_dirs, files,
     url_idx, run_iter, pc, desktop_json, mobile_json, results, invocations,
     interrupted, csv_output, logged, exception >>

\* a site every sitemap of which is a leaf
LiveSite ==
  [u \in SitemapUrls |-> IF u \in {SitemapXml, ChildOneXml} THEN LeafOne ELSE LeafTwo]

(***************************************************************************)
(* cli.py main, lines 88-103: the command line and the config file         *)
(***************************************************************************)
\* the options of the model
Options == {"max_urls", "runs_per_url"}

\* parser.get_default(k)
get_default(k) == IF k = "max_urls" THEN PyInt(99999) ELSE PyInt(1)

\* the values an option is given on the command line
ArgValues == {PyInt(1), PyInt(2), PyInt(99999)}

\* the command lines of the model: each option is given or not
CommandLines == UNION {[given -> ArgValues] : given \in SUBSET Options}

\* parser.parse_known_args(): an option that is not given has its default
parse_known_args(line) ==
  [k \in Options |-> IF k \in DOMAIN line THEN line[k] ELSE get_default(k)]

\* --config-file was not given
NoConfigFile == [kind |-> "not given"]
\* open() fails
UnreadableConfig == [kind |-> "unreadable"]
\* yaml.safe_load or json.load fails
InvalidConfig == [kind |-> "invalid"]
\* a document that is not a mapping
ListConfig == [kind |-> "list"]
\* a mapping, as its items in order
DictConfig(items) == [kind |-> "dict", items |-> items]

\* the keys of the mappings of the model; a YAML key need not be a string
ConfigKeys == {Str("max_urls"), Str("runs_per_url"), Str("bogus"), PyInt(1)}
ConfigValues == {PyInt(2), PyInt(5)}
\* most items of a mapping
MaxConfigItems == 2

ConfigItems == {[key |-> k, value |-> v] : k \in ConfigKeys, v \in ConfigValues}

ConfigFiles ==
  {NoConfigFile, UnreadableConfig, InvalidConfig, ListConfig} \cup
  {DictConfig(items) : items \in
     {q \in SeqsUpTo(ConfigItems, MaxConfigItems) :
        \A i, j \in 1..Len(q) : q[i].key = q[j].key => i = j}}

\* hasattr(args, k) raises TypeError for a key that is not a string
hasattr_raises(k) == k.t # "str"

\* hasattr(args, k) for a string k
hasattr(ns, k) == k.s \in DOMAIN ns

RECURSIVE ApplyItems(_, _)
\* lines 99-101: the loop over cfg.items(); the exception that ends it, if any
ApplyItems(ns, items) ==
  IF items = << >> THEN [args |-> ns, exception |-> None]
  ELSE LET k == items[1].key
           v == items[1].value
       IN IF hasattr_raises(k) THEN [args |-> ns, exception |-> TypeError]
          ELSE IF hasattr(ns, k) /\ ns[k.s] = get_default(k.s)
          THEN ApplyItems([ns EXCEPT ![k.s] = v], Tail(items))
          ELSE ApplyItems(ns, Tail(items))

FailedToLoad == "Failed to load config file"

\* a faulty handler: the exception is swallowed without a word
load_config_silently(ns, file) ==
  IF file.kind = "dict"
  THEN [args |-> ApplyItems(ns, file.items).args, printed |-> << >>]
  ELSE [args |-> ns, printed |-> << >>]

\* lines 91-103: the namespace after the config file, and what was printed
load_config(ns, file) ==
  IF file.kind = "not given" THEN [args |-> ns, printed |-> << >>]
  ELSE IF file.kind \in {"unreadable", "invalid"}
  THEN [args |-> ns, printed |-> <<FailedToLoad>>]
  ELSE IF file.kind # "dict" THEN [args |-> ns, printed |-> << >>]
  ELSE LET r == ApplyItems(ns, file.items)
       IN [args |-> r.args,
           printed |-> IF r.exception # None THEN <<FailedToLoad>> ELSE << >>]

\* the values of the option parsing once main is past it
ConfigIdle ==
  /\ argv = << >>
  /\ config_file = NoConfigFile
  /\ args = parse_known_args(<< >>)
  /\ c_pc = "gather"
  /\ printed = << >>

\* the values of the executable detection before step 3
(***************************************************************************)
(* The two utility functions under call, as the tests of test_utils.py     *)
(* call them: is_html_page on a URL of a sitemap, parse_display_value on a *)
(* cell of a display-string column.                                        *)
(***************************************************************************)
NoCall == [fn |-> "none"]
NotReturned == [t |-> "pending"]
Bool(b) == [t |-> "bool", b |-> b]

\* URLs: a host or a path, an ending, and a query or a fragment
UrlStems ==
  { HttpScheme \o <<"a">>,
    HttpScheme \o <<"a", "/">>,
    HttpScheme \o <<"a", "/", "p">> }

UrlEndings ==
  NON_HTML_EXTENSIONS \cup
  { << >>,
    <<"/">>,
    <<".", "h", "t", "m", "l">>,
    <<".", "h", "t", "m">>,
    <<".", "P", "N", "G">>,
    <<".", "P", "d", "f">>,
    <<".", "p", "n", "g", "/">> }

UrlTails ==
  { << >>,
    <<"?", "v", "=", "2">>,
    <<"?", "f", "=", "x", ".", "p", "n", "g">>,
    <<"#", "t", "o", "p">> }

UrlInputs ==
  {stem \o ending \o tail : stem \in UrlStems, ending \in UrlEndings, tail \in UrlTails}

\* the cells of a display-string column: None, the NaN of a missing cell, and
\* strings of at most MaxDisplayLen characters with the two of the tests
MaxDisplayLen == 4

DisplayAlphabet == {"0", "1", "2", ".", " ", "s"}

DisplayInputs ==
  {None, NaN} \cup
  {Str(chars) : chars \in SeqsUpTo(DisplayAlphabet, MaxDisplayLen)
                           \cup {Display12s, Display240ms}}

\* the items of audits['network-requests']['details']['items']: each is a
\* dict whose keys may be missing; url is the position of the item in the
\* list, so that the items of one list have distinct URLs
Item(keys, resourceType, duration) ==
  [keys |-> keys, url |-> 0, resourceType |-> resourceType, duration |-> duration]

ItemShapes ==
  { Item({"url", "resourceType"}, "Script", 0),
    Item({"url", "resourceType", "duration"}, "Script", 1),
    Item({"url", "resourceType", "duration"}, "Script", 2),
    Item({"resourceType", "duration"}, "Script", 1),
    Item({"url", "resourceType", "duration"}, "Image", 2),
    Item({"url"}, "", 0) }

\* the Script items that fill a long list
FillerShapes ==
  { Item({"url", "resourceType"}, "Script", 0),
    Item({"url", "resourceType", "duration"}, "Script", 1),
    Item({"url", "resourceType", "duration"}, "Script", 2) }

\* most items of the free beginning of a list
MaxItems == 3

\* [:20]
TopScripts == 20

FillerCounts == {0, TopScripts - 1, TopScripts}

WithUrls(q) == [i \in 1..Len(q) |-> [q[i] EXCEPT !.url = i]]

\* an absent network-requests audit, details or items gives the empty list
ItemLists ==
  {WithUrls(beginning \o [i \in 1..k |-> filler]) :
     beginning \in SeqsUpTo(ItemShapes, MaxItems),
     k \in FillerCounts, filler \in FillerShapes}

\* item.get(key, default)
ItemGet(item, key, default) == IF key \in item.keys THEN item[key] ELSE default

IsScript(item) == ItemGet(item, "resourceType", "") = "Script"

\* the list comprehension of lines 147-149: item['url'] raises KeyError
ScriptTimingsRaises(items) ==
  \E i \in 1..Len(items) : IsScript(items[i]) /\ "url" \notin items[i].keys

script_timings(items) ==
  LET scripts == SelectSeq(items, IsScript)
  IN [i \in 1..Len(scripts) |->
        [url |-> scripts[i].url, duration |-> ItemGet(scripts[i], "duration", 0)]]

\* a faulty sort that leaves the list as it is
SortedByDurationUnsorted(q) == q

\* sorted(script_timings, key=lambda x: x[1], reverse=True): stable, equal
\* durations keep the order of the list
RECURSIVE SortedByDuration(_)
SortedByDuration(q) ==
  IF q = << >> THEN << >>
  ELSE LET front == SortedByDuration(SubSeq(q, 1, Len(q) - 1))
           x     == q[Len(q)]
           k     == Cardinality({i \in 1..Len(front) : front[i].duration >= x.duration})
       IN SubSeq(front, 1, k) \o <<x>> \o SubSeq(front, k + 1, Len(front))

PyList(q) == [t |-> "list", v |-> q]

\* auto_lighthouse_2.py lines 144-154 return [] on any exception;
\* auto_lighthouse.py lines 152-162 raise it again
get_top_slowest_scripts(script, items) ==
  IF ScriptTimingsRaises(items)
  THEN IF script = "auto_lighthouse_2" THEN PyList(<< >>) ELSE KeyError
  ELSE LET sorted_scripts == Prefix(SortedByDuration(script_timings(items)), TopScripts)
       IN PyList([i \in 1..Len(sorted_scripts) |-> sorted_scripts[i].url])

Calls ==
  [fn : {"is_html_page"}, arg : UrlInputs] \cup
  [fn : {"parse_display_value"}, arg : DisplayInputs] \cup
  [fn : {"get_top_slowest_scripts"},
   script : {"auto_lighthouse_2", "auto_lighthouse"}, arg : ItemLists]

CallIdle ==
  /\ utility_call = NoCall
  /\ returned = NotReturned

InitCalls ==
  /\ utility_call \in Calls
  /\ returned = NotReturned

\* sitemap.py lines 77-81
CallIsHtmlPage ==
  /\ utility_call.fn = "is_html_page"
  /\ returned = NotReturned
  /\ returned' = Bool(is_html_page(utility_call.arg))
  /\ UNCHANGED utility_call

\* cli.py lines 21-30
CallParseDisplayValue ==
  /\ utility_call.fn = "parse_display_value"
  /\ returned = NotReturned
  /\ returned' = parse_display_value(utility_call.arg)
  /\ UNCHANGED utility_call

\* auto_lighthouse_2.py lines 144-154, auto_lighthouse.py lines 152-162
CallGetTopSlowestScripts ==
  /\ utility_call.fn = "get_top_slowest_scripts"
  /\ returned = NotReturned
  /\ returned' = get_top_slowest_scripts(utility_call.script, utility_call.arg)
  /\ UNCHANGED utility_call

(***************************************************************************)
(* auto_lighthouse_2.py main, lines 205-219 (auto_lighthouse.py lines      *)
(* 203-228): the worker pool                                               *)
(***************************************************************************)
\* most URLs of a campaign of the variant
MaxPoolUrls == 2

\* threads of the pool (the scripts set 10)
max_workers == 2

\* list(set(urls))[:max_urls]: distinct URLs in any order
PoolUrlLists ==
  {q \in SeqsUpTo({UrlTable[i] : i \in 1..MaxPoolUrls}, MaxPoolUrls) :
     /\ Len(q) > 0
     /\ \A i, j \in 1..Len(q) : q[i] = q[j] => i = j}

\* how process_url can end: the tool exits 0 and leaves a report, the tool
\* fails, or the report cannot be read
PoolOutcomes == {"ok", "nonzero", "malformed"}

\* the dict process_url returns; {} when run_lighthouse or
\* extract_detailed_data failed
process_url(url, mode, outcome) ==
  IF outcome = "ok" THEN [requested_url |-> url, mode |-> mode] ELSE << >>

\* [executor.submit(process_url, url, mode) for url in urls
\*                                          for mode in ('desktop', 'mobile')]
SubmittedFutures(urls) ==
  [k \in 1..(2 * Len(urls)) |->
     [url |-> urls[(k + 1) \div 2],
      mode |-> IF k % 2 = 1 THEN "desktop" ELSE "mobile",
      state |-> "pending",
      result |-> << >>]]

\* a faulty loop body that appends whatever future.result() is
collect_unfiltered(rs, result) == Append(rs, result)

\* result = future.result(); if result: results.append(result)
collect(rs, result) == IF DOMAIN result # {} THEN Append(rs, result) ELSE rs

PoolIdle ==
  /\ futures = << >>
  /\ yield_order = << >>
  /\ pool_results = << >>
  /\ summary = None
  /\ p_pc = "idle"

\* the main thread has submitted every task and enters the as_completed loop
InitPool ==
  /\ futures \in {SubmittedFutures(urls) : urls \in PoolUrlLists}
  /\ yield_order = << >>
  /\ pool_results = << >>
  /\ summary = None
  /\ p_pc = "collecting"

InState(st) == {i \in 1..Len(futures) : futures[i].state = st}

\* a free worker thread takes the oldest queued work item; the threads go on
\* doing so while the executor's __exit__ waits in shutdown(wait=True)
WorkerTakesTask ==
  /\ p_pc \in {"collecting", "unwinding"}
  /\ Cardinality(InState("running")) < max_workers
  /\ InState("pending") # {}
  /\ LET i == CHOOSE n \in InState("pending") : \A m \in InState("pending") : n <= m
     IN futures' = [futures EXCEPT ![i].state = "running"]
  /\ UNCHANGED <<yield_order, pool_results, summary, p_pc>>

\* process_url returns in a worker thread and the future is done
WorkerCompletesTask ==
  /\ \E i \in InState("running") : \E outcome \in PoolOutcomes :
        futures' = [futures EXCEPT
                      ![i].state = "finished",
                      ![i].result = process_url(futures[i].url, futures[i].mode, outcome)]
  /\ UNCHANGED <<yield_order, pool_results, summary, p_pc>>

\* one turn of "for future in as_completed(futures)" in the main thread
CollectCompleted ==
  /\ p_pc = "collecting"
  /\ \E i \in InState("finished") :
        /\ \A k \in 1..Len(yield_order) : yield_order[k] # i
        /\ yield_order' = Append(yield_order, i)
        /\ pool_results' = collect(pool_results, futures[i].result)
  /\ UNCHANGED <<futures, summary, p_pc>>

\* the loop has seen every future: the with blocks end, DataFrame and to_csv
WriteSummary ==
  /\ p_pc = "collecting"
  /\ Len(yield_order) = Len(futures)
  /\ summary' = [rows |-> pool_results]
  /\ p_pc' = "done"
  /\ UNCHANGED <<futures, yield_order, pool_results>>

\* KeyboardInterrupt in the main thread while it is in the loop: no handler,
\* the exception leaves the loop and reaches the executor's __exit__
PoolKeyboardInterrupt ==
  /\ p_pc = "collecting"
  /\ p_pc' = "unwinding"
  /\ UNCHANGED <<futures, yield_order, pool_results, summary>>

\* shutdown(wait=True) returns when every work item has run; the exception
\* then ends the script before DataFrame and to_csv
ExecutorExitReraises ==
  /\ p_pc = "unwinding"
  /\ InState("finished") = 1..Len(futures)
  /\ p_pc' = "killed"
  /\ UNCHANGED <<futures, yield_order, pool_results, summary>>

PathIdle ==
  /\ lighthouse_path = NoPath
  /\ isfile = {}
  /\ lighthouse_exe = None

\* the values of the executable detection after a step 3 that found the
\* executable in the working directory
PathLocated ==
  /\ lighthouse_path = NoPath
  /\ isfile = {"lighthouse"}
  /\ lighthouse_exe = get_lighthouse_path(NoPath, {"lighthouse"})

\* the state in which main reaches step 2; every site is tried in sitemap
\* mode, one site that answers in the other modes
InitGather ==
  /\ OrchestratorIdle
  /\ url_target \in {<< >>, UrlTable[3], <<" ">> \o UrlTable[4]}
  /\ csv_input_file \in {NoCsv, MissingCsv} \cup
                        {CsvFile(rows) : rows \in SeqsUpTo(CsvCells, MaxCsvRows)}
  /\ base_url \in {<< >>, <<"a">>, <<" ", "a", "/">>}
  /\ max_urls \in MaxUrlsArgs
  /\ IF url_target = << >> /\ csv_input_file = NoCsv /\ Strip(base_url) # << >>
     THEN robots \in RobotsAnswers /\ site \in Sites
     ELSE /\ robots = [status |-> "ok", lines |-> <<LineSitemapIndex>>]
          /\ site = LiveSite
  /\ g_pc = "start"
  /\ sitemaps = << >>
  /\ sm_i = 1
  /\ all_urls = {}
  /\ stack = << >>
  /\ fetched = << >>
  /\ PathIdle
  /\ ConfigIdle
  /\ CallIdle
  /\ PoolIdle

\* lines 127-130: single URL mode
SingleUrlMode ==
  /\ g_pc = "start"
  /\ url_target # << >>
  /\ urls_to_process' = <<Strip(url_target)>>
  /\ g_pc' = "ready"
  /\ UNCHANGED <<url_target, csv_input_file, base_url, max_urls, robots, site,
                 sitemaps, sm_i, all_urls, stack, fetched>>
  /\ UNCHANGED orchRest
  /\ UNCHANGED restVars

\* lines 131-144: CSV mode
CsvMode ==
  /\ g_pc = "start"
  /\ url_target = << >>
  /\ csv_input_file # NoCsv
  /\ IF csv_input_file = MissingCsv
     THEN g_pc' = "exit" /\ UNCHANGED urls_to_process
     ELSE /\ urls_to_process' = Prefix(CsvUrls(csv_input_file.rows), max_urls)
          /\ g_pc' = "ready"
  /\ UNCHANGED <<url_target, csv_input_file, base_url, max_urls, robots, site,
                 sitemaps, sm_i, all_urls, stack, fetched>>
  /\ UNCHANGED orchRest
  /\ UNCHANGED restVars

\* lines 146-160: sitemap mode up to the loop over the sitemaps
SitemapMode ==
  /\ g_pc = "start"
  /\ url_target = << >>
  /\ csv_input_file = NoCsv
  /\ LET base_domain == Strip(base_url)
         discovered  == fetch_sitemaps_from_robots(HttpScheme \o base_domain, robots)
     IN IF base_domain = << >>
        THEN g_pc' = "exit" /\ UNCHANGED sitemaps
        ELSE /\ sitemaps' = IF discovered = << >>
                            THEN FallbackSitemaps(base_domain)
                            ELSE discovered
             /\ g_pc' = "sitemaps"
  /\ UNCHANGED <<url_target, csv_input_file, base_url, max_urls, robots, site,
                 sm_i, all_urls, stack, fetched>>
  /\ UNCHANGED <<urls_to_process, orchRest>>
  /\ UNCHANGED restVars

\* line 162: main calls parse_sitemap(sm) for the next sitemap
ParseSitemapCall ==
  /\ g_pc = "sitemaps"
  /\ stack = << >>
  /\ sm_i <= Len(sitemaps)
  /\ stack' = <<NewCall(sitemaps[sm_i])>>
  /\ UNCHANGED <<url_target, csv_input_file, base_url, max_urls, robots, site,
                 g_pc, sitemaps, sm_i, all_urls, fetched>>
  /\ UNCHANGED <<urls_to_process, orchRest>>
  /\ UNCHANGED restVars

\* sitemap.py lines 53-73: the innermost call fetches and parses its document
ParseSitemapFetch ==
  /\ stack # << >>
  /\ stack[Len(stack)].stage = "fetch"
  /\ fetched' = Append(fetched, stack[Len(stack)].url)
  /\ stack' = [stack EXCEPT ![Len(stack)] =
                 AfterFetch(stack[Len(stack)], site[stack[Len(stack)].url])]
  /\ UNCHANGED <<url_target, csv_input_file, base_url, max_urls, robots, site,
                 g_pc, sitemaps, sm_i, all_urls>>
  /\ UNCHANGED <<urls_to_process, orchRest>>
  /\ UNCHANGED restVars

\* sitemap.py line 63: an index calls parse_sitemap for its next child
ParseSitemapRecurse ==
  /\ stack # << >>
  /\ stack[Len(stack)].stage = "children"
  /\ stack' = IF Len(stack) >= RecursionLimit
              THEN [stack EXCEPT ![Len(stack)] = AfterRecursionError(@)]
              ELSE Append([stack EXCEPT ![Len(stack)].todo = Tail(@)],
                          NewCall(Head(stack[Len(stack)].todo)))
  /\ UNCHANGED <<url_target, csv_input_file, base_url, max_urls, robots, site,
                 g_pc, sitemaps, sm_i, all_urls, fetched>>
  /\ UNCHANGED <<urls_to_process, orchRest>>
  /\ UNCHANGED restVars

\* sitemap.py line 75: the innermost call returns its urls, to the index that
\* called it (urls.extend) or to main (all_urls.update)
ParseSitemapReturn ==
  /\ stack # << >>
  /\ stack[Len(stack)].stage = "return"
  /\ IF Len(stack) > 1
     THEN /\ stack' = [SubSeq(stack, 1, Len(stack) - 1) EXCEPT
                         ![Len(stack) - 1].urls = @ \o stack[Len(stack)].urls,
                         ![Len(stack) - 1].stage =
                            IF stack[Len(stack) - 1].todo = << >>
                            THEN "return" ELSE "children"]
          /\ UNCHANGED <<all_urls, sm_i>>
     ELSE /\ stack' = << >>
          /\ all_urls' = all_urls \cup SeqToSet(stack[Len(stack)].urls)
          /\ sm_i' = sm_i + 1
  /\ UNCHANGED <<url_target, csv_input_file, base_url, max_urls, robots, site,
                 g_pc, sitemaps, fetched>>
  /\ UNCHANGED <<urls_to_process, orchRest>>
  /\ UNCHANGED restVars

\* line 163: urls_to_process = list(all_urls)[:args.max_urls]
CapUrls ==
  /\ g_pc = "sitemaps"
  /\ stack = << >>
  /\ sm_i > Len(sitemaps)
  /\ \E listed \in Orderings(all_urls) :
       urls_to_process' = Prefix(listed, max_urls)
  /\ g_pc' = "ready"
  /\ UNCHANGED <<url_target, csv_input_file, base_url, max_urls, robots, site,
                 sitemaps, sm_i, all_urls, stack, fetched>>
  /\ UNCHANGED orchRest
  /\ UNCHANGED restVars

\* sites whose sitemap indexes list themselves or one another
CyclicDocs(u) ==
  CASE u = SitemapXml -> {FetchFailure, LeafOne}
    [] u = SitemapIndexXml ->
         {SitemapIndex(<<SitemapIndexXml>>, TRUE),
          SitemapIndex(<<SitemapIndexXml, SitemapIndexXml>>, TRUE),
          SitemapIndex(<<ChildOneXml, SitemapIndexXml>>, TRUE)}
    [] u = ChildOneXml -> {LeafOne, SitemapIndex(<<ChildTwoXml>>, TRUE)}
    [] u = ChildTwoXml ->
         {LeafTwo, SitemapIndex(<<ChildOneXml>>, TRUE),
          SitemapIndex(<<SitemapIndexXml>>, TRUE)}

CyclicSites == {s \in [SitemapUrls -> UNION {CyclicDocs(u) : u \in SitemapUrls}] :
                  \A u \in SitemapUrls : s[u] \in CyclicDocs(u)}

\* sitemap mode on a domain whose robots.txt names no sitemap
InitCycles ==
  /\ OrchestratorIdle
  /\ url_target = << >>
  /\ csv_input_file = NoCsv
  /\ base_url = <<"a">>
  /\ max_urls = 99999
  /\ robots = [status |-> "ok", lines |-> <<LineUserAgent>>]
  /\ site \in CyclicSites
  /\ g_pc = "start"
  /\ sitemaps = << >>
  /\ sm_i = 1
  /\ all_urls = {}
  /\ stack = << >>
  /\ fetched = << >>
  /\ PathIdle
  /\ ConfigIdle
  /\ CallIdle
  /\ PoolIdle

\* lines 167-171: main calls get_lighthouse_path(args.lighthouse_path); a
\* FileNotFoundError is not handled
LighthousePathDetection ==
  /\ g_pc = "ready"
  /\ \E custom_path \in {NoPath, CustomPath} :
     \E disk \in SUBSET {CustomPath, likely_paths[3], likely_paths[4]} :
       /\ lighthouse_path' = custom_path
       /\ isfile' = disk
       /\ IF get_lighthouse_path(custom_path, disk) = FileNotFoundError
          THEN /\ exception' = FileNotFoundError
               /\ pc' = "crashed"
               /\ g_pc' = "raised"
               /\ UNCHANGED lighthouse_exe
          ELSE /\ lighthouse_exe' = get_lighthouse_path(custom_path, disk)
               /\ g_pc' = "located"
               /\ UNCHANGED <<pc, exception>>
  /\ UNCHANGED <<url_target, csv_input_file, base_url, max_urls, robots, site,
                 sitemaps, sm_i, all_urls, stack, fetched>>
  /\ UNCHANGED <<urls_to_process, disable_mobile, start_run, end_run, existing_runs, unknown_lh_flags,
                 run_dirs, files, url_idx, run_iter, desktop_json, mobile_json,
                 results, invocations, interrupted, csv_output, logged>>
  /\ UNCHANGED <<configVars, callVars, poolVars>>

(***************************************************************************)
(* cli.py main, lines 88-126: from the command line to step 2              *)
(***************************************************************************)
\* the values of the URL-set resolution before step 2
GatherNotStarted ==
  /\ url_target = << >>
  /\ csv_input_file = NoCsv
  /\ base_url = << >>
  /\ max_urls = 99999
  /\ robots = [status |-> "fail", lines |-> << >>]
  /\ site = [u \in SitemapUrls |-> FetchFailure]
  /\ g_pc = "not started"
  /\ sitemaps = << >>
  /\ sm_i = 1
  /\ all_urls = {}
  /\ stack = << >>
  /\ fetched = << >>

\* the state after line 88
InitConfig ==
  /\ OrchestratorIdle
  /\ GatherNotStarted
  /\ PathIdle
  /\ CallIdle
  /\ PoolIdle
  /\ argv \in CommandLines
  /\ config_file \in ConfigFiles
  /\ args = parse_known_args(argv)
  /\ c_pc = "parsed"
  /\ printed = << >>

\* lines 90-103: load the optional config file and override defaults
LoadConfigFile ==
  /\ c_pc = "parsed"
  /\ args' = load_config(args, config_file).args
  /\ printed' = printed \o load_config(args, config_file).printed
  /\ c_pc' = "logging"
  /\ UNCHANGED <<argv, config_file>>
  /\ UNCHANGED <<orchVars, gatherVars, pathVars, callVars, poolVars>>

\* lines 105-126: logging and the output directory; main reaches step 2
\* with the options of the namespace
BeginGather ==
  /\ c_pc = "logging"
  /\ c_pc' = "gather"
  /\ g_pc' = "start"
  /\ max_urls' = args["max_urls"].n
  /\ UNCHANGED <<argv, config_file, args, printed>>
  /\ UNCHANGED <<url_target, csv_input_file, base_url, robots, site,
                 sitemaps, sm_i, all_urls, stack, fetched>>
  /\ UNCHANGED <<orchVars, pathVars, callVars, poolVars>>

(***************************************************************************)
(* The specifications.                                                     *)
(***************************************************************************)
vars == << orchVars, gatherVars, pathVars, configVars, callVars, poolVars >>

\* the audit loop and the aggregation of cli.py
Init ==
  InitOrchestrator /\ GatherIdle /\ PathLocated /\ ConfigIdle /\ CallIdle /\ PoolIdle

Next ==
  \/ DesktopRun
  \/ DesktopExtract
  \/ MobileRun
  \/ MobileExtract
  \/ KeyboardInterrupt
  \/ SaveAggregated

Spec == Init /\ [][Next]_vars

\* campaigns that follow one another on an output directory that was empty
\* before the first of them
InitRuns ==
  /\ Init
  /\ run_dirs = {}
  /\ Len(urls_to_process) <= 1
  /\ unknown_lh_flags = << >>
  /\ end_run <= MaxRunIndex

NextRuns == Next \/ StartNextInvocation

SpecRuns == InitRuns /\ [][NextRuns]_vars

\* most records of a result collection handed to step 5 at once
MaxRecords == 4

\* reports with and without a score and a display value
ReportPool ==
  { [kind |-> "report", requestedUrl |-> UrlTable[1], score |-> Dec(9, 1),
     fcp |-> Str(Display12s)],
    [kind |-> "report", requestedUrl |-> UrlTable[1], score |-> Dec(5, 1),
     fcp |-> Str(Display240ms)],
    [kind |-> "report", requestedUrl |-> UrlTable[1], score |-> None,
     fcp |-> Str(<< >>)] }

\* the records the audit loop appends for these reports and for a malformed
\* one, in run 1
RecordPool ==
  {SetItem(extract_detailed_data([p \in {out_file(UrlTable[1], mode, 1)} |-> report],
                                 out_file(UrlTable[1], mode, 1), mode),
           "run_iteration", PyInt(1)) :
     mode \in {"desktop", "mobile"}, report \in ReportPool \cup {Malformed}}

\* step 5 on its own: main leaves the audit loop with any result collection
InitAggregate ==
  /\ urls_to_process = << >>
  /\ disable_mobile = FALSE
  /\ start_run = 1
  /\ end_run = 1
  /\ existing_runs = {}
  /\ unknown_lh_flags = << >>
  /\ run_dirs = {}
  /\ files = << >>
  /\ url_idx = 1
  /\ run_iter = 1
  /\ pc = "aggregate"
  /\ desktop_json = None
  /\ mobile_json = None
  /\ results \in SeqsUpTo(RecordPool, MaxRecords)
  /\ invocations = << >>
  /\ interrupted = FALSE
  /\ csv_output = None
  /\ logged = {}
  /\ exception = NoException
  /\ GatherIdle
  /\ PathLocated
  /\ ConfigIdle
  /\ CallIdle
  /\ PoolIdle

NextAggregate == SaveAggregated

SpecAggregate == InitAggregate /\ [][NextAggregate]_vars

\* the URL-set resolution of cli.py
NextGather ==
  \/ SingleUrlMode
  \/ CsvMode
  \/ SitemapMode
  \/ ParseSitemapCall
  \/ ParseSitemapFetch
  \/ ParseSitemapRecurse
  \/ ParseSitemapReturn
  \/ CapUrls
  \/ LighthousePathDetection

SpecGather == InitGather /\ [][NextGather]_vars

\* the sitemap resolution of cli.py on cyclic sites; main is one thread that
\* runs on, and every GET ends (timeout=10)
NextCycles ==
  \/ SitemapMode
  \/ ParseSitemapCall
  \/ ParseSitemapFetch
  \/ ParseSitemapRecurse
  \/ ParseSitemapReturn
  \/ CapUrls

SpecCycles == InitCycles /\ [][NextCycles]_vars /\ WF_vars(NextCycles)

\* the option parsing of cli.py
NextConfig ==
  \/ LoadConfigFile
  \/ BeginGather

SpecConfig == InitConfig /\ [][NextConfig]_vars

\* one call of a utility function on a drawn argument
InitUtility ==
  /\ OrchestratorIdle
  /\ GatherIdle
  /\ PathIdle
  /\ ConfigIdle
  /\ PoolIdle
  /\ InitCalls

NextUtility ==
  \/ CallIsHtmlPage /\ UNCHANGED <<orchVars, gatherVars, pathVars, configVars, poolVars>>
  \/ CallParseDisplayValue /\ UNCHANGED <<orchVars, gatherVars, pathVars, configVars, poolVars>>
  \/ CallGetTopSlowestScripts /\ UNCHANGED <<orchVars, gatherVars, pathVars, configVars, poolVars>>

SpecUtility == InitUtility /\ [][NextUtility]_vars

\* the worker pool of the two scripts
InitWorkerPool ==
  /\ OrchestratorIdle
  /\ GatherIdle
  /\ PathIdle
  /\ ConfigIdle
  /\ CallIdle
  /\ InitPool

poolRest == << orchVars, gatherVars, pathVars, configVars, callVars >>

NextWorkerPool ==
  \/ WorkerTakesTask /\ UNCHANGED poolRest
  \/ WorkerCompletesTask /\ UNCHANGED poolRest
  \/ CollectCompleted /\ UNCHANGED poolRest
  \/ WriteSummary /\ UNCHANGED poolRest
  \/ PoolKeyboardInterrupt /\ UNCHANGED poolRest
  \/ ExecutorExitReraises /\ UNCHANGED poolRest

SpecWorkerPool == InitWorkerPool /\ [][NextWorkerPool]_vars

(***************************************************************************)
(* Vocabulary of the properties of the audit loop.                         *)
(***************************************************************************)
RECURSIVE Flatten(_)
Flatten(ss) == IF Len(ss) = 0 THEN << >> ELSE ss[1] \o Flatten(Tail(ss))

\* the (URL, run, mode) targets of the campaign in the order of the loops
Schedule ==
  Flatten([i \in 1..Len(urls_to_process) |->
    Flatten([r \in 1..(end_run - start_run + 1) |->
      [m \in 1..Len(Modes(disable_mobile)) |->
         [idx |-> i, run |-> start_run + r - 1, mode |-> Modes(disable_mobile)[m]]]])])

TargetOf(inv) == [idx |-> inv.idx, run |-> inv.run, mode |-> inv.mode]

\* the invocations the external tool ended with exit status 0, in order; the
\* k-th record of the result collection comes from the k-th of them
Completed == SelectSeq(invocations, LAMBDA inv : inv.outcome = "ok")

\* the invocation of target t succeeded and so did the extraction of its artifact
Succeeded(t) ==
  \E k \in 1..Len(invocations) :
     /\ TargetOf(invocations[k]) = t
     /\ invocations[k].outcome = "ok"
     /\ invocations[k].artifact.kind = "report"

\* the AuditResult of target t
AuditResultOf(t) ==
  [mode |-> Str(ModeChars(t.mode)),
   requested_url |-> Str(urls_to_process[t.idx]),
   performance_score |-> ReportOf(urls_to_process[t.idx], t.mode).score,
   first_contentful_paint |-> ReportOf(urls_to_process[t.idx], t.mode).fcp,
   run_iteration |-> PyInt(t.run)]

\* the audit loop ran to its end (no interrupt)
LoopCompleted == pc \in {"aggregate", "done", "crashed"} /\ ~interrupted

Terminated == pc \in {"done", "crashed"}

(***************************************************************************)
(* C1: a failure of the external tool on one target (non-zero exit or      *)
(* timeout) never aborts the other targets: when the loop has run to its   *)
(* end every scheduled target was invoked, and every target whose          *)
(* invocation and extraction succeeded contributed exactly one             *)
(* AuditResult; no other AuditResult exists.                               *)
(***************************************************************************)
C1_FailureIsolated ==
  LoopCompleted =>
    LET targets == Schedule
        done    == Completed
    IN /\ \A n \in 1..Len(targets) :
            Cardinality({k \in 1..Len(invocations) :
                           TargetOf(invocations[k]) = targets[n]}) = 1
       /\ \A n \in 1..Len(targets) :
            Succeeded(targets[n]) =>
              Cardinality({k \in 1..Len(results) :
                             /\ k <= Len(done)
                             /\ TargetOf(done[k]) = targets[n]
                             /\ results[k] = AuditResultOf(targets[n])}) = 1
       /\ Cardinality({k \in 1..Len(results) : "mode" \in DOMAIN results[k]})
            = Cardinality({n \in 1..Len(targets) : Succeeded(targets[n])})

\* three or more targets, exactly one of them failed with a non-zero exit,
\* the others succeeded, and the loop ended with one AuditResult per success
C1_Witness ==
  /\ LoopCompleted
  /\ Len(Schedule) >= 3
  /\ Cardinality({k \in 1..Len(invocations) : invocations[k].outcome = "nonzero"}) = 1
  /\ invocations[1].outcome = "nonzero"
  /\ \A k \in 2..Len(invocations) : Succeeded(TargetOf(invocations[k]))
  /\ Len(results) = Len(Schedule) - 1

(***************************************************************************)
(* C2: when the external tool exceeds the per-URL timeout, run_lighthouse  *)
(* returns None for that target, no target is ever invoked a second time,  *)
(* and the loop goes on with the next scheduled target.                    *)
(***************************************************************************)
LastInvocation == invocations[Len(invocations)]

C2_TimeoutNoRetry ==
  /\ \A j, k \in 1..Len(invocations) :
       TargetOf(invocations[j]) = TargetOf(invocations[k]) => j = k
  /\ (Len(invocations) > 0 /\ LastInvocation.outcome = "timeout") =>
       LET targets == Schedule
           n       == Len(invocations)
       IN /\ (IF LastInvocation.mode = "desktop" THEN desktop_json ELSE mobile_json) = None
          /\ TargetOf(LastInvocation) = targets[n]
          /\ ~interrupted =>
               IF n < Len(targets)
               THEN /\ pc = IF targets[n + 1].mode = "desktop"
                            THEN "desktop_run" ELSE "mobile_run"
                    /\ url_idx = targets[n + 1].idx
                    /\ run_iter = targets[n + 1].run
               ELSE pc \in {"aggregate", "done", "crashed"}

\* a target timed out and the following target was invoked after it
C2_Witness ==
  /\ Len(invocations) >= 2
  /\ invocations[Len(invocations) - 1].outcome = "timeout"
  /\ LastInvocation.outcome = "ok"
  /\ TargetOf(LastInvocation) # TargetOf(invocations[Len(invocations) - 1])

(***************************************************************************)
(* C3: a KeyboardInterrupt that arrives during the audit loop stops        *)
(* scheduling (main has left the loop, so no invocation can start) and     *)
(* every record appended before it is written to the output table.         *)
(***************************************************************************)
C3_InterruptFlushesResults ==
  /\ interrupted => pc \notin LoopPcs
  /\ (interrupted /\ Terminated /\ results # << >>) =>
       /\ csv_output # None
       /\ \A k \in 1..Len(results) :
            \E n \in 1..Len(csv_output.rows) :
               \A c \in DOMAIN results[k] \ numeric_cols :
                  csv_output.rows[n][c] = results[k][c]

(***************************************************************************)
(* C6: a parse failure of one JSON artifact contributes no record to the   *)
(* result collection: every record of the collection comes from an         *)
(* artifact that was a well-formed report.                                 *)
(***************************************************************************)
C6_ParseFailureContributesNoRecord ==
  \A k \in 1..Len(results) : Completed[k].artifact.kind = "report"

(***************************************************************************)
(* C7: once the audit loop has started, no combination of tool failures    *)
(* and report parse failures ends main with an unhandled exception.        *)
(***************************************************************************)
C7_NoUnhandledException == pc # "crashed" /\ exception = NoException

(***************************************************************************)
(* C8: if no audit of the campaign succeeded, main ends normally, has      *)
(* logged the warning and has written no output table.                     *)
(***************************************************************************)
C8_NoSuccessNoOutput ==
  (Terminated /\ \A n \in 1..Len(Schedule) : ~Succeeded(Schedule[n])) =>
     /\ pc = "done"
     /\ csv_output = None
     /\ "No successful Lighthouse runs, no CSV written." \in logged

(***************************************************************************)
(* C10: every record of the result collection has a mode field, and it is  *)
(* the mode of the target whose invocation produced the record.            *)
(***************************************************************************)
C10_RecordModeMatchesTarget ==
  \A k \in 1..Len(results) :
     /\ "mode" \in DOMAIN results[k]
     /\ results[k]["mode"] = Str(ModeChars(Completed[k].mode))


(***************************************************************************)
(* Vocabulary of the properties of the URL-set resolution.                 *)
(***************************************************************************)
\* the page URLs a leaf sitemap lists, after the extension filter
DirectPages(u) ==
  IF site[u].kind = "urlset"
  THEN {p \in SeqToSet(site[u].locs) : is_html_page(p)}
  ELSE {}

RECURSIVE ResolvedPages(_)
\* what resolving sitemap u is to return: the pages of a leaf, the union of
\* the resolved children of an index, nothing for a failed branch
ResolvedPages(u) ==
  IF site[u].kind = "sitemapindex" /\ site[u].wellformed
  THEN UNION {ResolvedPages(site[u].entries[i].loc) : i \in 1..Len(site[u].entries)}
  ELSE DirectPages(u)

\* the branch at u fails: fetch failure or malformed XML
BranchFails(u) ==
  \/ site[u].kind = "fetch_failure"
  \/ site[u].kind = "sitemapindex" /\ ~site[u].wellformed

\* the list of the child sitemaps of the index at u
ChildSitemaps(u) ==
  IF site[u].kind = "sitemapindex" /\ site[u].wellformed
  THEN [i \in 1..Len(site[u].entries) |-> site[u].entries[i].loc]
  ELSE << >>

(***************************************************************************)
(* C4: resolving a sitemap index returns the union of the page URLs of its *)
(* recursively resolved children, filtered by the extension filter (four   *)
(* URLs for an index of two leaves with three URLs each, one of them not a *)
(* page).                                                                  *)
(***************************************************************************)
C4_IndexResolvesToUnionOfChildren ==
  \A k \in 1..Len(stack) :
     (/\ stack[k].stage = "return"
      /\ site[stack[k].url].kind = "sitemapindex"
      /\ site[stack[k].url].wellformed)
     => SeqToSet(stack[k].urls) = ResolvedPages(stack[k].url)

(***************************************************************************)
(* C5: a fetch failure or malformed XML in one branch empties that branch  *)
(* only: when the resolution has ended, every sibling of a failed child of *)
(* a resolved index, and every other top-level sitemap beside a failed     *)
(* one, was fetched and its page URLs are in the result.                   *)
(***************************************************************************)
C5_FailedBranchDoesNotAbortSiblings ==
  (g_pc = "ready" /\ sitemaps # << >>) =>
    /\ \A i, j \in 1..Len(sitemaps) :
         (i # j /\ BranchFails(sitemaps[i])) =>
            /\ sitemaps[j] \in SeqToSet(fetched)
            /\ DirectPages(sitemaps[j]) \subseteq all_urls
    /\ \A u \in SeqToSet(fetched) :
         \A i, j \in 1..Len(ChildSitemaps(u)) :
            (i # j /\ BranchFails(ChildSitemaps(u)[i])) =>
               /\ ChildSitemaps(u)[j] \in SeqToSet(fetched)
               /\ DirectPages(ChildSitemaps(u)[j]) \subseteq all_urls

(***************************************************************************)
(* C9: the URL list handed to the audit loop never holds the same URL      *)
(* twice, whichever source produced it.                                    *)
(***************************************************************************)
C9_UrlSetDeduplicated ==
  g_pc = "ready" =>
    \A i, j \in 1..Len(urls_to_process) :
       urls_to_process[i] = urls_to_process[j] => i = j

(***************************************************************************)
(* Vocabulary of C11: the list each source offers before the cap.          *)
(***************************************************************************)
\* the non-blank first cells of the rows of the CSV file
NonBlankCells ==
  SelectSeq(csv_input_file.rows, LAMBDA cell : \E i \in 1..Len(cell) : cell[i] # " ")

\* every page URL a sitemap of the site lists
ListedPages ==
  UNION {SeqToSet(site[u].locs) : u \in {v \in SitemapUrls : site[v].kind = "urlset"}}

\* the list handed to the audit loop comes from one source only: the single
\* URL, else the CSV file, else the sitemaps, and a source that was not
\* chosen is not read
OneSource ==
  IF url_target # << >>
  THEN /\ urls_to_process = <<Strip(url_target)>>
       /\ fetched = << >>
  ELSE IF csv_input_file # NoCsv
  THEN /\ \A i \in 1..Len(urls_to_process) :
            \E k \in 1..Len(csv_input_file.rows) :
               urls_to_process[i] = Strip(csv_input_file.rows[k])
       /\ fetched = << >>
  ELSE SeqToSet(urls_to_process) \subseteq ListedPages

\* len(seq[:n]) for a list of length len
SliceLength(len, n) ==
  IF n >= 0 THEN (IF n < len THEN n ELSE len)
  ELSE (IF len + n > 0 THEN len + n ELSE 0)

(***************************************************************************)
(* C11 as stated: the URL list comes from exactly one source and is never  *)
(* longer than --max-urls, for every value of --max-urls and every source. *)
(***************************************************************************)
C11_OneSourceNeverOverMaxUrls ==
  g_pc = "ready" => (OneSource /\ Len(urls_to_process) <= max_urls)

(***************************************************************************)
(* C11 as amended: the URL list comes from exactly one source; the single  *)
(* URL is never capped; the CSV and sitemap lists are cut by the slice     *)
(* [:max_urls], which keeps at most max_urls URLs when max_urls >= 0 and   *)
(* drops the last -max_urls URLs when max_urls < 0.                        *)
(***************************************************************************)
C11_OneSourceSliceCapsCsvAndSitemap ==
  g_pc = "ready" =>
    /\ OneSource
    /\ url_target # << >> => Len(urls_to_process) = 1
    /\ (url_target = << >> /\ csv_input_file # NoCsv) =>
         Len(urls_to_process) = SliceLength(Len(NonBlankCells), max_urls)
    /\ (url_target = << >> /\ csv_input_file = NoCsv) =>
         Len(urls_to_process) = SliceLength(Cardinality(all_urls), max_urls)
    /\ (url_target = << >> /\ max_urls >= 0) => Len(urls_to_process) <= max_urls

\* a CSV file of two URLs was cut to one by --max-urls 1 while a single URL
\* was not given and the site, which answers, was not read
C11_Witness ==
  /\ g_pc = "ready"
  /\ url_target = << >>
  /\ csv_input_file # NoCsv
  /\ Len(NonBlankCells) = 2
  /\ max_urls = 1
  /\ Len(urls_to_process) = 1
  /\ base_url # << >>

(***************************************************************************)
(* Vocabulary of C12: what each line of the robots.txt files directs to.   *)
(***************************************************************************)
ExpectedDirective(line) ==
  CASE line = LineSitemapIndex -> <<SitemapIndexXml>>
    [] line = LineUpperCase -> <<ChildOneXml>>
    [] line = LineRelative -> <<ChildTwoXml>>
    [] line = LineRelativeNoSlash -> <<ChildTwoXml>>
    [] OTHER -> << >>

\* the sitemaps robots.txt names, none when its GET failed
ExpectedSitemaps ==
  IF robots.status = "ok"
  THEN Flatten([i \in 1..Len(robots.lines) |-> ExpectedDirective(robots.lines[i])])
  ELSE << >>

SitemapModeChosen ==
  url_target = << >> /\ csv_input_file = NoCsv /\ g_pc \in {"sitemaps", "ready"}

(***************************************************************************)
(* C12: fetch_sitemaps_from_robots returns the values of the Sitemap:      *)
(* lines of robots.txt, matched whatever their case and resolved against   *)
(* the base URL when relative, and nothing when the GET of robots.txt      *)
(* fails; main resolves the two conventional paths when nothing was        *)
(* returned and otherwise the returned sitemaps, and nothing else but the  *)
(* children of the indexes it resolves.                                    *)
(***************************************************************************)
C12_RobotsDiscoveryOrFallback ==
  SitemapModeChosen =>
    /\ sitemaps = IF ExpectedSitemaps = << >>
                  THEN <<SitemapXml, SitemapIndexXml>>
                  ELSE ExpectedSitemaps
    /\ g_pc = "ready" =>
         /\ SeqToSet(sitemaps) \subseteq SeqToSet(fetched)
         /\ \A u \in SeqToSet(fetched) :
              \/ u \in SeqToSet(sitemaps)
              \/ \E v \in SeqToSet(fetched) : u \in SeqToSet(ChildSitemaps(v))

\* robots.txt named one sitemap in upper case and one by a relative path,
\* and exactly these two were resolved
C12_Witness ==
  /\ SitemapModeChosen
  /\ g_pc = "ready"
  /\ robots = [status |-> "ok", lines |-> <<LineUpperCase, LineUserAgent, LineRelative>>]
  /\ sitemaps = <<ChildOneXml, ChildTwoXml>>
  /\ SeqToSet(fetched) = {ChildOneXml, ChildTwoXml}

(***************************************************************************)
(* C13: a missing executable is fatal at startup: when no executable is    *)
(* found, or --lighthouse-path names no existing file, main ends with the  *)
(* error before any work has started (no sitemap was fetched, no audit was *)
(* invoked), and main goes on to the audits only with an executable that   *)
(* is a file.                                                              *)
(***************************************************************************)
C13_MissingExecutableFatalBeforeWork ==
  /\ exception = FileNotFoundError => (fetched = << >> /\ invocations = << >>)
  /\ (g_pc \in {"located", "raised"} /\ lighthouse_path # NoPath
        /\ lighthouse_path \notin isfile) => exception = FileNotFoundError
  /\ g_pc = "located" => \E path \in isfile : lighthouse_exe = Str(path)

(***************************************************************************)
(* Vocabulary of C14 and C15.                                              *)
(***************************************************************************)
\* the config file cannot be read or is not valid YAML/JSON
BadConfigFile == config_file \in {UnreadableConfig, InvalidConfig}

\* main is past the loading of the config file
ConfigLoaded == c_pc \in {"logging", "gather"}

(***************************************************************************)
(* C14 as stated: a config file that cannot be read or parsed is fatal:    *)
(* main never reaches the URL resolution with it.                          *)
(***************************************************************************)
C14_BadConfigFileIsFatal ==
  BadConfigFile => g_pc = "not started"

(***************************************************************************)
(* C14 as amended: a config file that cannot be read or parsed is not      *)
(* fatal: main prints the failure, changes no option and goes on with the  *)
(* values of the command line.                                             *)
(***************************************************************************)
C14_BadConfigFileIsReportedAndIgnored ==
  (BadConfigFile /\ ConfigLoaded) =>
    /\ printed = <<FailedToLoad>>
    /\ \A k \in Options :
         args[k] = IF k \in DOMAIN argv THEN argv[k] ELSE get_default(k)
    /\ exception = NoException
    /\ c_pc = "gather" => (g_pc = "start" /\ max_urls = args["max_urls"].n)

\* main reached the URL resolution with a config file that is not valid
\* YAML/JSON and with the --max-urls of the command line
C14_Witness ==
  /\ config_file = InvalidConfig
  /\ "max_urls" \in DOMAIN argv
  /\ argv["max_urls"] = PyInt(2)
  /\ g_pc = "start"
  /\ max_urls = 2

(***************************************************************************)
(* C15: a value of the config file is given to an option only when the     *)
(* option was not given on the command line: an option given on the        *)
(* command line keeps its value, also when that value is the default, and  *)
(* a key that names no option changes nothing.                             *)
(***************************************************************************)
C15_CommandLineValuesAreKept ==
  ConfigLoaded =>
    /\ DOMAIN args = Options
    /\ \A k \in DOMAIN argv : args[k] = argv[k]
    /\ \A k \in Options :
         args[k] # parse_known_args(argv)[k] =>
           /\ k \notin DOMAIN argv
           /\ config_file.kind = "dict"
           /\ \E i \in 1..Len(config_file.items) :
                config_file.items[i] = [key |-> Str(k), value |-> args[k]]

(***************************************************************************)
(* C16: the first run index of an invocation is one more than the highest  *)
(* N of the run_N directories it finds, an invocation uses the indices     *)
(* from there up to the last of its runs-per-url and all of them when its  *)
(* loop is not cut short, and across invocations on one output directory   *)
(* none writes an artifact into a run_N directory that was there when it   *)
(* started.                                                                *)
(***************************************************************************)
C16_RunIndexesAreFresh ==
  /\ \A n \in existing_runs : n < start_run
  /\ start_run = 1 \/ (start_run - 1) \in existing_runs
  /\ \A k \in 1..Len(invocations) :
       /\ invocations[k].run \in start_run..end_run
       /\ invocations[k].run \notin existing_runs
  /\ run_dirs \ existing_runs \subseteq start_run..end_run
  /\ (LoopCompleted /\ Len(urls_to_process) > 0) =>
       {invocations[k].run : k \in 1..Len(invocations)} = start_run..end_run

\* an earlier invocation left an artifact in run_1, and the one after it ran
\* to the end in run_2
C16_Witness ==
  /\ existing_runs = {1}
  /\ start_run = 2
  /\ end_run = 2
  /\ LoopCompleted
  /\ {invocations[k].run : k \in 1..Len(invocations)} = {2}
  /\ \E p \in DOMAIN files : p.dir = 1

(***************************************************************************)
(* Vocabulary of C17: the output table and the mean of a column.           *)
(***************************************************************************)
\* the data rows of the table: what follows the two average rows
DataRows == SubSeq(csv_output.rows, 3, Len(csv_output.rows))

\* the numbers the data rows of a mode hold in column c
NumbersOf(mode, c) ==
  LET rows  == SelectSeq(DataRows, LAMBDA row : row["mode"] = Str(ModeChars(mode)))
      cells == [i \in 1..Len(rows) |-> rows[i][c]]
  IN SelectSeq(cells, LAMBDA v : v # NaN)

RECURSIVE Deviations(_, _, _)
\* the sum over the decimals v of vals of (v - f) in units of 10^-k / f.den
Deviations(vals, f, k) ==
  IF Len(vals) = 0 THEN 0
  ELSE vals[1].digits * Pow10(k - vals[1].scale) * f.den - f.num * Pow10(k)
       + Deviations(Tail(vals), f, k)

\* the largest scale of the decimals vals
LargestScale(vals) ==
  CHOOSE m \in {vals[i].scale : i \in 1..Len(vals)} :
     \A i \in 1..Len(vals) : vals[i].scale <= m

\* f is the arithmetic mean of the numbers vals: NaN when there is none,
\* else the fraction the deviations from which add up to zero
IsMean(f, vals) ==
  IF Len(vals) = 0 THEN f = NaN
  ELSE /\ f # NaN
       /\ f # Unavailable
       /\ Deviations(vals, f, LargestScale(vals)) = 0

HasRows(mode) == \E i \in 1..Len(DataRows) : DataRows[i]["mode"] = Str(ModeChars(mode))

AverageRowOf(mode) == csv_output.rows[IF mode = "desktop" THEN 1 ELSE 2]

(***************************************************************************)
(* C17 as stated: in the average row of each mode every numeric column     *)
(* holds the arithmetic mean of the rows of that mode and every other      *)
(* column holds "---".                                                     *)
(***************************************************************************)
C17_AverageRowMeansAndSentinels ==
  csv_output # None =>
    \A mode \in {"desktop", "mobile"} :
       \A c \in DOMAIN AverageRowOf(mode) :
          IF c \in numeric_cols
          THEN IsMean(AverageRowOf(mode)[c], NumbersOf(mode, c))
          ELSE AverageRowOf(mode)[c] = Unavailable

(***************************************************************************)
(* C17 as amended: in the average row of a mode that has rows every        *)
(* numeric column holds the arithmetic mean of the numbers the rows of     *)
(* that mode hold in it (rows without a number are left out, NaN when      *)
(* there is none); the mode column holds "<mode>-AVERAGE"; every other     *)
(* column holds "---", and so does every numeric column of a mode without  *)
(* rows.                                                                   *)
(***************************************************************************)
C17_AverageRowMeansLabelAndSentinels ==
  csv_output # None =>
    \A mode \in {"desktop", "mobile"} :
       \A c \in DOMAIN AverageRowOf(mode) :
          IF c = "mode"
          THEN AverageRowOf(mode)[c] = Str(ModeChars(mode) \o AverageLabel)
          ELSE IF c \in numeric_cols /\ HasRows(mode)
          THEN IsMean(AverageRowOf(mode)[c], NumbersOf(mode, c))
          ELSE AverageRowOf(mode)[c] = Unavailable

\* two desktop rows with the scores 0.9 and 0.5 and two mobile rows with the
\* score 0.9: the desktop average of the score is 7/10, the mobile one 9/10
C17_Witness ==
  /\ csv_output # None
  /\ Len(DataRows) = 4
  /\ NumbersOf("desktop", "performance_score") = <<Dec(9, 1), Dec(5, 1)>>
  /\ NumbersOf("mobile", "performance_score") = <<Dec(9, 1), Dec(9, 1)>>
  /\ AverageRowOf("desktop")["performance_score"] = [num |-> 7, den |-> 10]
  /\ AverageRowOf("mobile")["performance_score"] = [num |-> 9, den |-> 10]
  /\ AverageRowOf("desktop")["requested_url"] = Unavailable

(***************************************************************************)
(* Vocabulary of C18: the rows of the output table.                        *)
(***************************************************************************)
IsAverageRow(row) == EndsWith(row["mode"].s, AverageLabel)

\* the average rows at the head of the table
LeadingAverageRows ==
  LET n == CHOOSE m \in 0..Len(csv_output.rows) :
             /\ \A i \in 1..m : IsAverageRow(csv_output.rows[i])
             /\ m < Len(csv_output.rows) => ~IsAverageRow(csv_output.rows[m + 1])
  IN SubSeq(csv_output.rows, 1, n)

\* the rows that follow them
RowsAfterAverages ==
  SubSeq(csv_output.rows, Len(LeadingAverageRows) + 1, Len(csv_output.rows))

\* the data row of the AuditResult of target t: the display value as a number
DataRowOf(t) ==
  [AuditResultOf(t) EXCEPT
     !["first_contentful_paint"] = IF t.mode = "desktop" THEN Dec(12, 1) ELSE Dec(240, 0)]

\* the data rows are the collected AuditResults, one row each and in the order
\* of collection, each of a succeeded target; when the loop was not
\* interrupted every succeeded target has its row
OneDataRowPerAuditResult ==
  LET done == Completed
      rows == RowsAfterAverages
  IN /\ Len(rows) = Len(results)
     /\ ~interrupted =>
          Len(rows) = Cardinality({n \in 1..Len(Schedule) : Succeeded(Schedule[n])})
     /\ \A k \in 1..Len(rows) :
          /\ Succeeded(TargetOf(done[k]))
          /\ rows[k] = DataRowOf(TargetOf(done[k]))
     /\ \A j, k \in 1..Len(rows) :
          TargetOf(done[j]) = TargetOf(done[k]) => j = k

(***************************************************************************)
(* C18 as stated: the table holds one data row per collected AuditResult,  *)
(* in the order of collection, none for a failed target and no two for one *)
(* target; when more than one run per URL is requested the data rows are   *)
(* preceded by one average row for each mode that was audited.             *)
(***************************************************************************)
C18_DataRowsAfterAveragesOfAuditedModes ==
  csv_output # None =>
    /\ OneDataRowPerAuditResult
    /\ end_run > start_run =>
         /\ Len(LeadingAverageRows) = Len(Modes(disable_mobile))
         /\ \A i \in 1..Len(LeadingAverageRows) :
              LeadingAverageRows[i]["mode"] =
                Str(ModeChars(Modes(disable_mobile)[i]) \o AverageLabel)

(***************************************************************************)
(* C18 as amended: every table main writes holds one data row per          *)
(* collected AuditResult, in the order of collection, none for a failed    *)
(* target and no two for one target, preceded by exactly two average rows, *)
(* desktop-AVERAGE and mobile-AVERAGE, whatever the number of runs per URL *)
(* is and whether mobile was audited or not.                               *)
(***************************************************************************)
C18_DataRowsAfterTwoAverageRows ==
  csv_output # None =>
    /\ OneDataRowPerAuditResult
    /\ Len(LeadingAverageRows) = 2
    /\ LeadingAverageRows[1]["mode"] = Str(ModeChars("desktop") \o AverageLabel)
    /\ LeadingAverageRows[2]["mode"] = Str(ModeChars("mobile") \o AverageLabel)

\* two runs of one URL with mobile disabled: two data rows follow the two
\* average rows, and the mobile average row holds no mean
C18_Witness ==
  /\ csv_output # None
  /\ disable_mobile
  /\ end_run = start_run + 1
  /\ Len(RowsAfterAverages) = 2
  /\ Len(LeadingAverageRows) = 2
  /\ LeadingAverageRows[2]["performance_score"] = Unavailable

(***************************************************************************)
(* Vocabulary of C19: the path of a URL, between its host and its query or *)
(* fragment.                                                               *)
(***************************************************************************)
\* the first position from `from` on where s holds one of chars, Len(s) + 1
\* when there is none
FirstOf(s, chars, from) ==
  LET hits == {i \in from..Len(s) : s[i] \in chars}
  IN IF hits = {} THEN Len(s) + 1
     ELSE CHOOSE i \in hits : \A j \in hits : i <= j

PathOfUrl(url) ==
  LET first == FirstOf(url, {"/", "?", "#"}, Len(HttpScheme) + 1)
      after == FirstOf(url, {"?", "#"}, first)
  IN SubSeq(url, first, after - 1)

IsHtmlPageCalled == utility_call.fn = "is_html_page" /\ returned # NotReturned

(***************************************************************************)
(* C19: is_html_page returns a value for every string; it returns false    *)
(* exactly when the path of the URL ends, case-insensitively, with one of  *)
(* the non-page suffixes, and true for every other URL.                    *)
(***************************************************************************)
C19_FalseExactlyForNonPagePaths ==
  IsHtmlPageCalled =>
    returned =
      Bool(~ \E ext \in NON_HTML_EXTENSIONS :
               EndsWith(Lower(PathOfUrl(utility_call.arg)), ext))

(***************************************************************************)
(* Vocabulary of C20: the number a string of digits and points writes.     *)
(***************************************************************************)
DigitOrPoint(c) == c \in {"0", "1", "2", "3", "4", "5", "6", "7", "8", "9", "."}

\* the characters of s that are digits or points, in their order
DigitsAndPoints(s) ==
  LET keep == {i \in 1..Len(s) : DigitOrPoint(s[i])}
      nth(k) == CHOOSE i \in keep : Cardinality({j \in keep : j < i}) = k - 1
  IN [k \in 1..Cardinality(keep) |-> s[nth(k)]]

\* a valid number: one point at most and one digit at least
IsNumeral(s) ==
  /\ Cardinality({i \in 1..Len(s) : s[i] = "."}) <= 1
  /\ \E i \in 1..Len(s) : s[i] # "."

RECURSIVE ValueOfDigits(_)
ValueOfDigits(ds) ==
  IF ds = << >> THEN 0
  ELSE DigitValue[Head(ds)] * Pow10(Len(ds) - 1) + ValueOfDigits(Tail(ds))

\* r is the number the numeral s writes
IsValueOf(r, s) ==
  LET point == FirstOf(s, {"."}, 1)
      whole == SubSeq(s, 1, point - 1)
      frac  == SubSeq(s, point + 1, Len(s))
  IN /\ DOMAIN r = {"digits", "scale"}
     /\ r.digits * Pow10(Len(frac)) = ValueOfDigits(whole \o frac) * Pow10(r.scale)

ParseDisplayValueCalled ==
  /\ utility_call.fn = "parse_display_value"
  /\ returned # NotReturned
  /\ utility_call.arg # NaN

(***************************************************************************)
(* C20: parse_display_value removes every character that is not a digit or *)
(* a decimal point and returns the number the rest writes: 1.2 for "1.2 s" *)
(* and 240.0 for "240 ms"; it returns None for the empty string, for None, *)
(* and for a string whose rest is empty or not a valid number.             *)
(***************************************************************************)
C20_StripsThenParsesOrNone ==
  ParseDisplayValueCalled =>
    LET val == utility_call.arg
    IN /\ val = None => returned = None
       /\ val # None =>
            LET rest == DigitsAndPoints(val.s)
            IN IF rest = << >> \/ ~IsNumeral(rest)
               THEN returned = None
               ELSE IsValueOf(returned, rest)
       /\ val = Str(Display12s) => returned = Dec(12, 1)
       /\ val = Str(Display240ms) => returned = Dec(240, 0)
       /\ val = Str(<< >>) => returned = None

\* "1.2 s" gave 1.2
C20_Witness ==
  /\ ParseDisplayValueCalled
  /\ utility_call.arg = Str(Display12s)
  /\ returned = Dec(12, 1)

(***************************************************************************)
(* C21: the numeric conversion loop of step 5 never raises: whatever the   *)
(* display-string column holds (a display string, an empty string, the NaN *)
(* of a row that lacks the field), step 5 ends without an exception and    *)
(* with the output table written.                                          *)
(***************************************************************************)
C21_NormalizationNeverFatal ==
  (pc # "aggregate" /\ results # << >>) =>
     /\ exception # TypeError
     /\ "mode" \in Columns(results) =>
          /\ exception = NoException
          /\ csv_output # None

(***************************************************************************)
(* Vocabulary of C22 and C29: the flags of the command line, which main    *)
(* hands to every call of run_lighthouse in one list.                      *)
(***************************************************************************)
\* the flags the user gave: run_lighthouse adds nothing but its default entry
UserFlags == SelectSeq(unknown_lh_flags, LAMBDA f : f # DefaultChromeFlags)

UserGaveChromeFlags ==
  \E i \in 1..Len(UserFlags) : UserFlags[i] \in {UserChromeFlags, UserWindowSize}

\* how many elements of the sequence q are in the set S
CountIn(q, S) == Cardinality({i \in 1..Len(q) : q[i] \in S})

(***************************************************************************)
(* C22: the command of every invocation carries the default --chrome-flags *)
(* entry (headless, no GPU, no /dev/shm, no sandbox, the pinned            *)
(* user-data directory) exactly when the user gave no --chrome-flags flag; *)
(* when the user gave one, the command carries the user's flags and no     *)
(* default entry.                                                          *)
(***************************************************************************)
C22_DefaultFlagsExactlyWhenNoneGiven ==
  \A k \in 1..Len(invocations) :
     LET command == invocations[k].cmd
     IN /\ command = ModeFlags(invocations[k].mode) \o UserFlags \o
                       (IF UserGaveChromeFlags THEN << >> ELSE <<DefaultChromeFlags>>)
        /\ UserGaveChromeFlags <=> CountIn(command, {DefaultChromeFlags}) = 0
        /\ ~UserGaveChromeFlags => CountIn(command, {DefaultChromeFlags}) = 1

\* two commands with the user's --chrome-flags and without the defaults
C22_Witness ==
  /\ Len(invocations) >= 2
  /\ UserFlags = <<UserChromeFlags>>
  /\ \A k \in 1..Len(invocations) :
        /\ CountIn(invocations[k].cmd, {UserChromeFlags}) = 1
        /\ CountIn(invocations[k].cmd, {DefaultChromeFlags}) = 0

(***************************************************************************)
(* C29 as stated: over the calls of run_lighthouse of one campaign, which  *)
(* share one extra_flags list, the list grows by at most one element, the  *)
(* default --chrome-flags entry, added by the first call only, and every   *)
(* command contains exactly one --chrome-flags argument.                   *)
(***************************************************************************)
ChromeFlagsArguments == {UserChromeFlags, UserWindowSize, DefaultChromeFlags}

SharedListGrowsByDefaultEntryOnce ==
  /\ Len(unknown_lh_flags) <= Len(UserFlags) + 1
  /\ Len(unknown_lh_flags) = Len(UserFlags) + 1 <=>
       (Len(invocations) > 0 /\ ~UserGaveChromeFlags)
  /\ \A k \in 1..Len(invocations) :
        CountIn(invocations[k].cmd, {DefaultChromeFlags}) <= 1

C29_SharedListOneChromeFlagsArgument ==
  /\ SharedListGrowsByDefaultEntryOnce
  /\ \A k \in 1..Len(invocations) :
        CountIn(invocations[k].cmd, ChromeFlagsArguments) = 1

(***************************************************************************)
(* C29 as amended: the shared list grows by at most one element, the       *)
(* default --chrome-flags entry, added by the first call only; every       *)
(* command contains exactly one --chrome-flags argument when the user gave *)
(* one or none, and exactly the user's --chrome-flags arguments when the   *)
(* user gave several.                                                      *)
(***************************************************************************)
C29_SharedListNoDuplicatedChromeFlags ==
  /\ SharedListGrowsByDefaultEntryOnce
  /\ \A k \in 1..Len(invocations) :
        CountIn(invocations[k].cmd, ChromeFlagsArguments) =
          IF CountIn(UserFlags, ChromeFlagsArguments) > 1
          THEN CountIn(UserFlags, ChromeFlagsArguments)
          ELSE 1

\* three calls with no flag from the user: the list holds the default entry
\* once and each command carries it once
C29_Witness ==
  /\ Len(invocations) >= 3
  /\ UserFlags = << >>
  /\ unknown_lh_flags = <<DefaultChromeFlags>>
  /\ \A k \in 1..Len(invocations) :
        CountIn(invocations[k].cmd, ChromeFlagsArguments) = 1

(***************************************************************************)
(* Vocabulary of C23 and C24: the records the worker pool has produced and *)
(* the records the collecting thread holds.                                *)
(***************************************************************************)
NonEmpty(record) == DOMAIN record # {}

\* the results of the yielded futures in the order of the yields
YieldedResults == [k \in 1..Len(yield_order) |-> futures[yield_order[k]].result]

(***************************************************************************)
(* C23: when an interrupt reaches the worker-pool variant during the run,  *)
(* the script still aggregates and writes the records it had collected:    *)
(* once the script has ended, every collected record is a row of the       *)
(* summary.                                                                *)
(***************************************************************************)
C23_InterruptKeepsCollectedRecords ==
  p_pc = "killed" =>
    \A k \in 1..Len(pool_results) :
       /\ summary # None
       /\ \E n \in 1..Len(summary.rows) : summary.rows[n] = pool_results[k]

TopSlowestScriptsReturned ==
  /\ utility_call.fn = "get_top_slowest_scripts"
  /\ returned.t = "list"

\* the duration of the item whose URL is u
DurationOf(u) == ItemGet(utility_call.arg[u], "duration", 0)

ScriptUrls ==
  {i \in 1..Len(utility_call.arg) : utility_call.arg[i].resourceType = "Script"
                                      /\ "resourceType" \in utility_call.arg[i].keys}

C27_TopTwentyScriptsBySlowness ==
  TopSlowestScriptsReturned =>
    LET urls == returned.v
    IN /\ Len(urls) <= 20
       /\ \A k \in 1..Len(urls) : urls[k] \in ScriptUrls
       /\ \A j, k \in 1..Len(urls) : urls[j] = urls[k] => j = k
       /\ \A k \in 1..(Len(urls) - 1) : DurationOf(urls[k]) >= DurationOf(urls[k + 1])
       /\ \A u \in ScriptUrls \ SeqToSet(urls) :
            \A k \in 1..Len(urls) : DurationOf(u) <= DurationOf(urls[k])

\* more than 20 Script items: 20 URLs are returned, a slower item of the end of
\* the list is in and a faster one of the beginning is left out
C27_Witness ==
  /\ TopSlowestScriptsReturned
  /\ Len(returned.v) = 20
  /\ Cardinality(ScriptUrls) > 20
  /\ \E u \in ScriptUrls \ SeqToSet(returned.v) : u < returned.v[20]
  /\ \E j \in 1..19 : DurationOf(returned.v[j]) > DurationOf(returned.v[j + 1])

(***************************************************************************)
(* C28: within one run folder two distinct (URL, mode) targets never get   *)
(* the same output JSON path, so no artifact of a run is overwritten by    *)
(* the artifact of another target of that run.                             *)
(***************************************************************************)
C28_DistinctTargetsDistinctPaths ==
  \A j, k \in 1..Len(invocations) :
     (/\ invocations[j].run = invocations[k].run
      /\ <<invocations[j].url, invocations[j].mode>> # <<invocations[k].url, invocations[k].mode>>)
       => out_file(invocations[j].url, invocations[j].mode, invocations[j].run)
            # out_file(invocations[k].url, invocations[k].mode, invocations[k].run)

(***************************************************************************)
(* C30: the sequential orchestrator invokes the external tool for one      *)
(* target at a time and in a fixed order: the URLs in list order, for each *)
(* URL the runs in increasing order, for each run desktop before mobile    *)
(* (no mobile target with --disable-mobile); the records of the result     *)
(* collection are in that order and carry the run index of their target.   *)
(***************************************************************************)
\* whatever an earlier target left to do is done when the tool is started
EarlierTargetsFinished ==
  pc \in {"desktop_run", "mobile_run"} => Len(results) = Len(Completed)

C30_SequentialFixedOrder ==
  /\ Len(invocations) <= Len(Schedule)
  /\ \A k \in 1..Len(invocations) : TargetOf(invocations[k]) = Schedule[k]
  /\ disable_mobile => \A k \in 1..Len(invocations) : invocations[k].mode = "desktop"
  /\ EarlierTargetsFinished
  /\ Len(results) <= Len(Completed)
  /\ \A k \in 1..Len(results) :
       /\ results[k].run_iteration = PyInt(Completed[k].run)
       /\ "mode" \in DOMAIN results[k] => results[k] = AuditResultOf(TargetOf(Completed[k]))

\* two URLs, two runs each: four desktop audits ran to the end, the two runs
\* of the first URL before those of the second, and left four records
C30_Witness ==
  /\ pc = "done"
  /\ ~interrupted
  /\ Len(urls_to_process) = 2
  /\ end_run = start_run + 1
  /\ Len(invocations) = 4
  /\ invocations[2].idx = 1 /\ invocations[2].run = end_run
  /\ invocations[3].idx = 2 /\ invocations[3].run = start_run
  /\ Len(results) = 4
  /\ \A k \in 1..4 : "mode" \in DOMAIN results[k]

====
